---- MODULE Spec2Model ----
(***************************************************************************)
(* A model of the agent-chat-server of Hand-tear-large-model-development:   *)
(*   - workflow_sql/cache_manager.py   SQLCacheManager behind its Lock      *)
(*   - workflow_sql/database.py        SQLDatabaseManager                   *)
(*   - workflow_sql/nodes.py           the six pipeline nodes, routing      *)
(*   - workflow_sql/async_chart_generator.py  chart generation              *)
(*   - src/agent/mcp_manager.py, src/agent/graph.py   MCP tool loading      *)
(* Each component has its own specification over the shared variables; the  *)
(* components that a specification does not exercise stay in their idle     *)
(* state.                                                                   *)
(***************************************************************************)
EXTENDS Integers, Sequences, FiniteSets, TLC

VARIABLES
    cache,      \* SQLCacheManager._cache: entries in dict (insertion) order
    lock,       \* SQLCacheManager._lock: TRUE while held
    now,        \* time.time(), in whole seconds
    pc,         \* per thread: where it is inside its cache call
    op,         \* per thread: the cache call it is making
    ret,        \* per thread: the value its call returns
    obs,        \* per thread: what its call read (clock, preceding set)
    snap,       \* the cache as the lock holder found it
    lastSet,    \* the set() that completed last, if nothing happened since
    dbm,        \* SQLDatabaseManager: _db (connected or not) and _dialect
    dbUp,       \* whether SQLDatabase.from_uri can reach the database
    dbBackend,  \* the dialect string the connection reports
    dbOut,      \* the last database-manager call and how it ended
    node,       \* SQL pipeline: the node to run next, or END
    messages,   \* SQL pipeline: MessagesState["messages"]
    chartOn,    \* mcp_config.chart.enabled
    ran,        \* SQL pipeline: the nodes run so far, in order
    lastOut,    \* SQL pipeline: what the last node run returned
    routeIn,    \* should_continue: the state it is given
    routeOut,   \* should_continue: what it returned
    mcpConfig,  \* MCPToolManager.config: enable_mcp and the enabled servers
    mcp_tools,  \* MCPToolManager.mcp_tools
    mcp_client, \* MCPToolManager.mcp_client
    mcpOut,     \* the last tool-loading call and how it ended
    all_tools,  \* agent/graph.py: all_tools, once the module is loaded
    mcpLoad,    \* MCPToolManager: the load_mcp_tools call under way
    agentConfig,   \* AgentSystemConfig: models, prompts, sub_agents, supervisor_model
    agents,        \* SubAgentFactory.agents: the names it holds an agent for
    handoff_tools, \* the list create_handoff_tools returned last
    agentOut,      \* the last call on the agent system and how it ended
    urlIn,      \* _extract_chart_url: the content it is given
    urlOut,     \* _extract_chart_url: what it returned
    routed,     \* pipeline: what should_continue returned in this run
    attempts,   \* pipeline: the external calls attempted in this run, in order
    dbCall,     \* per thread: the database-manager call it is in, and where
    dbOpened,   \* how many times SQLDatabase.from_uri has succeeded
    toolOut,    \* cached SQL tools: the last tool call and what it did
    sinceClear, \* cached SQL tools: the keys not asked for since clear_cache
    mcc,        \* MCPClientManager: _clients, _tools_cache, _cache_timestamps
    mccCall,    \* MCPClientManager: the get_tools call under way or just returned
    mccNow,     \* time.time() as MCPClientManager reads it
    mccSeen,    \* MCPClientManager: the last successful fetch and the clients created
    chartUrl,   \* generate_chart: the chart URL it extracted, if any
    chartUrlOut, \* generate_chart: the verdict on the URL and the result built
    convMessages, \* a conversation: state["messages"] over its runs
    convNode,   \* a conversation: the node the graph runs next
    convPrompt, \* a conversation: the query and result of the last answer prompt
    convExecuted, \* a conversation: the query check_query executed in this run, and its result
    gcm,         \* _cache_manager: 0 for None, else the manager it names
    gcmStore,    \* what each manager constructed holds under tables_list
    gcmPc,       \* get_cache_manager and its caller: where each thread is
    gcmOp,       \* the helper each thread is in
    gcmHeld,     \* cache_manager: the manager each thread obtained
    gcmRet,      \* what get_cached_tables_list returned, and what was last stored then
    gcmInits,    \* calls of initialize_cache so far
    gcmLast      \* the value last stored through cache_tables_list

cacheVars == <<cache, lock, now, pc, op, ret, obs, snap, lastSet>>

dbVars == <<dbm, dbUp, dbBackend, dbOut>>

pipeVars == <<node, messages, chartOn, ran, lastOut, routed, attempts>>

routeVars == <<routeIn, routeOut>>

mcpVars == <<mcpConfig, mcp_tools, mcp_client, mcpOut, all_tools>>

mcpLoadVars == <<mcpLoad>>

agentVars == <<agentConfig, agents, handoff_tools, agentOut>>

urlVars == <<urlIn, urlOut>>

dbConcVars == <<dbCall, dbOpened>>

toolVars == <<toolOut, sinceClear>>

mcClientVars == <<mcc, mccCall, mccNow, mccSeen>>

validateVars == <<chartUrl, chartUrlOut>>

convVars == <<convMessages, convNode, convPrompt, convExecuted>>

gcmVars == <<gcm, gcmStore, gcmPc, gcmOp, gcmHeld, gcmRet, gcmInits, gcmLast>>

vars ==
    <<cacheVars, dbVars, pipeVars, routeVars, mcpVars, mcpLoadVars,
      agentVars, urlVars, dbConcVars, toolVars, mcClientVars, validateVars,
      convVars, gcmVars>>

\* What the operations of one component leave alone.
notCacheVars ==
    <<dbVars, pipeVars, routeVars, mcpVars, mcpLoadVars, agentVars,
      urlVars, dbConcVars, toolVars, mcClientVars, validateVars, convVars,
      gcmVars>>

notDbVars ==
    <<cacheVars, pipeVars, routeVars, mcpVars, mcpLoadVars, agentVars,
      urlVars, dbConcVars, toolVars, mcClientVars, validateVars, convVars,
      gcmVars>>

notPipeVars ==
    <<cacheVars, dbVars, routeVars, mcpVars, mcpLoadVars, agentVars,
      urlVars, dbConcVars, toolVars, mcClientVars, validateVars, convVars,
      gcmVars>>

notRouteVars ==
    <<cacheVars, dbVars, pipeVars, mcpVars, mcpLoadVars, agentVars,
      urlVars, dbConcVars, toolVars, mcClientVars, validateVars, convVars,
      gcmVars>>

notMcpVars ==
    <<cacheVars, dbVars, pipeVars, routeVars, mcpLoadVars, agentVars,
      urlVars, dbConcVars, toolVars, mcClientVars, validateVars, convVars,
      gcmVars>>

notMcpLoadVars ==
    <<cacheVars, dbVars, pipeVars, routeVars, agentVars, urlVars,
      dbConcVars, toolVars, mcClientVars, validateVars, convVars, gcmVars>>

notAgentVars ==
    <<cacheVars, dbVars, pipeVars, routeVars, mcpVars, mcpLoadVars,
      urlVars, dbConcVars, toolVars, mcClientVars, validateVars, convVars,
      gcmVars>>

notUrlVars ==
    <<cacheVars, dbVars, pipeVars, routeVars, mcpVars, mcpLoadVars,
      agentVars, dbConcVars, toolVars, mcClientVars, validateVars,
      convVars, gcmVars>>

notDbConcVars ==
    <<cacheVars, pipeVars, routeVars, mcpVars, mcpLoadVars, agentVars,
      urlVars, toolVars, mcClientVars, validateVars, convVars, gcmVars>>

notToolVars ==
    <<dbVars, pipeVars, routeVars, mcpVars, mcpLoadVars, agentVars,
      urlVars, dbConcVars, mcClientVars, validateVars, convVars, gcmVars>>

notMcClientVars ==
    <<cacheVars, dbVars, pipeVars, routeVars, mcpVars, mcpLoadVars,
      agentVars, urlVars, dbConcVars, toolVars, validateVars, convVars,
      gcmVars>>

notValidateVars ==
    <<cacheVars, dbVars, pipeVars, routeVars, mcpVars, mcpLoadVars,
      agentVars, urlVars, dbConcVars, toolVars, mcClientVars, convVars,
      gcmVars>>

notConvVars ==
    <<cacheVars, dbVars, pipeVars, routeVars, mcpVars, mcpLoadVars,
      agentVars, urlVars, dbConcVars, toolVars, mcClientVars, validateVars,
      gcmVars>>

notGcmVars ==
    <<cacheVars, dbVars, pipeVars, routeVars, mcpVars, mcpLoadVars,
      agentVars, urlVars, dbConcVars, toolVars, mcClientVars, validateVars,
      convVars>>

----------------------------------------------------------------------------
(* Bounds of the model, and the program's parameters. *)

\* Threads calling the cache concurrently.
NumThreads == 2
\* The clock runs from 0 to MaxTime.
MaxTime == 3
\* Explicit ttl arguments of get() range over 0..MaxTtlArg.
MaxTtlArg == 1
\* CacheEntry.access_count is followed up to this value.
MaxAccess == 1

\* SQLCacheManager(default_ttl=3600, max_entries=100): the two constructor
\* parameters, scaled to the model's clock and to its three keys.
DefaultTtl == 2
MaxEntries == 2

Threads == 1..NumThreads

\* CacheKeys: the keys the SQL tools store under
Keys == {"tables_list", "database_info", "schema_all"}

\* Cached payloads (opaque to the cache)
Values == {"v1", "v2"}

\* Python's None, and a present value v, as sequences of length 0 and 1.
None == <<>>
Some(v) == <<v>>

----------------------------------------------------------------------------
(* CacheEntry and the dict operations the manager uses. *)

CacheEntry(k, d, t) == [key |-> k, data |-> d, timestamp |-> t, access_count |-> 0]

is_expired_strict(entry, ttl_seconds, t) == t - entry.timestamp >= ttl_seconds

\* CacheEntry.is_expired, with time.time() = t
is_expired(entry, ttl_seconds, t) == t - entry.timestamp > ttl_seconds

\* CacheEntry.access: the entry after the access
access(entry) == [entry EXCEPT !.access_count = @ + 1]

KeysOf(c) == {c[i].key : i \in 1..Len(c)}

HasKey(c, k) == k \in KeysOf(c)

Lookup(c, k) == c[CHOOSE i \in 1..Len(c) : c[i].key = k]

\* del d[k]
Remove(c, k) == SelectSeq(c, LAMBDA e : e.key # k)

PutIfAbsent(c, e) == IF HasKey(c, e.key) THEN c ELSE Append(c, e)

\* d[k] = e: an existing key keeps its place, a new key goes last
Put(c, e) ==
    IF HasKey(c, e.key)
    THEN [i \in 1..Len(c) |-> IF c[i].key = e.key THEN e ELSE c[i]]
    ELSE Append(c, e)

lru_key_most_used(c) ==
    c[CHOOSE i \in 1..Len(c) :
        /\ \A j \in 1..Len(c) : c[j].access_count <= c[i].access_count
        /\ \A j \in 1..(i - 1) : c[j].access_count < c[i].access_count].key

\* min(self._cache.keys(), key=access_count): the first key of least count
lru_key(c) ==
    c[CHOOSE i \in 1..Len(c) :
        /\ \A j \in 1..Len(c) : c[j].access_count >= c[i].access_count
        /\ \A j \in 1..(i - 1) : c[j].access_count > c[i].access_count].key

\* SQLCacheManager._evict_lru
evict_lru(c) == IF c = <<>> THEN c ELSE Remove(c, lru_key(c))

\* ttl = ttl or self.default_ttl
EffectiveTtl(ttl) == IF ttl = None \/ ttl[1] = 0 THEN DefaultTtl ELSE ttl[1]

is_full_off_by_one(c) == Len(c) > MaxEntries

\* len(self._cache) >= self.max_entries
is_full(c) == Len(c) >= MaxEntries

----------------------------------------------------------------------------
(* The body of each public operation, as a function of the cache it finds. *)

\* get judging expiry by default_ttl whatever ttl the caller passes
get_default_ttl_only(c, k, ttl, t) ==
    IF ~HasKey(c, k) THEN [cache |-> c, ret |-> None]
    ELSE IF is_expired(Lookup(c, k), DefaultTtl, t)
         THEN [cache |-> Remove(c, k), ret |-> None]
         ELSE [cache |-> Put(c, access(Lookup(c, k))),
               ret |-> Some(Lookup(c, k).data)]

\* SQLCacheManager.get: the cache and the return value
GetBody(c, k, ttl, t) ==
    IF ~HasKey(c, k) THEN [cache |-> c, ret |-> None]
    ELSE IF is_expired(Lookup(c, k), EffectiveTtl(ttl), t)
         THEN [cache |-> Remove(c, k), ret |-> None]
         ELSE [cache |-> Put(c, access(Lookup(c, k))),
               ret |-> Some(Lookup(c, k).data)]

\* SQLCacheManager.set run without interruption
SetBody(c, k, d, t) ==
    Put(IF is_full(c) THEN evict_lru(c) ELSE c, CacheEntry(k, d, t))

\* SQLCacheManager.delete
DeleteBody(c, k) ==
    IF HasKey(c, k) THEN [cache |-> Remove(c, k), ret |-> TRUE]
    ELSE [cache |-> c, ret |-> FALSE]

ExpiredKeys(c, t) ==
    {c[i].key : i \in {j \in 1..Len(c) : is_expired(c[j], DefaultTtl, t)}}

RECURSIVE SumAccess(_)
SumAccess(c) == IF c = <<>> THEN 0 ELSE Head(c).access_count + SumAccess(Tail(c))

\* SQLCacheManager.get_stats
GetStatsBody(c, t) ==
    [total_entries |-> Len(c),
     expired_entries |-> Cardinality(ExpiredKeys(c, t)),
     total_accesses |-> SumAccess(c),
     max_entries |-> MaxEntries,
     default_ttl |-> DefaultTtl,
     cache_keys |-> [i \in 1..Len(c) |-> c[i].key]]

\* cleanup_expired measuring age from the oldest entry alone: once one entry
\* has expired it sweeps them all
cleanup_all_once_any(c, t) ==
    [cache |-> IF ExpiredKeys(c, t) = {} THEN c ELSE <<>>,
     ret |-> IF ExpiredKeys(c, t) = {} THEN 0 ELSE Len(c)]

\* SQLCacheManager.cleanup_expired
CleanupBody(c, t) ==
    [cache |-> SelectSeq(c, LAMBDA e : ~is_expired(e, DefaultTtl, t)),
     ret |-> Cardinality(ExpiredKeys(c, t))]

----------------------------------------------------------------------------
(* The calls a thread can make. *)

TtlArgs == {None} \cup {Some(n) : n \in 0..MaxTtlArg}

Calls ==
    {[kind |-> "get", key |-> k, ttl |-> a] : k \in Keys, a \in TtlArgs}
    \cup {[kind |-> "set", key |-> k, data |-> d] : k \in Keys, d \in Values}
    \cup {[kind |-> "delete", key |-> k] : k \in Keys}
    \cup {[kind |-> "clear"], [kind |-> "get_stats"], [kind |-> "cleanup_expired"]}

NoCall == [kind |-> "none"]
NoObs == [at |-> 0, prior |-> None]

CacheIdle ==
    /\ cache = <<>>
    /\ lock = FALSE
    /\ now = 0
    /\ pc = [t \in Threads |-> "idle"]
    /\ op = [t \in Threads |-> NoCall]
    /\ ret = [t \in Threads |-> None]
    /\ obs = [t \in Threads |-> NoObs]
    /\ snap = <<>>
    /\ lastSet = None

\* SQLCacheManager.__init__
CacheInit == CacheIdle

\* time passes; a call reads the clock in its body, so time passing between
\* the end of the body and the return of the call is time passing after the
\* return
Tick ==
    /\ now < MaxTime
    /\ \A t \in Threads : pc[t] # "done"
    /\ now' = now + 1
    /\ lastSet' = None
    /\ UNCHANGED <<cache, lock, pc, op, ret, obs, snap>>
    /\ UNCHANGED notCacheVars

AcquireUnguarded(t, o) ==
    /\ pc[t] = "idle"
    /\ lock' = TRUE
    /\ snap' = cache
    /\ pc' = [pc EXCEPT ![t] = "locked"]
    /\ op' = [op EXCEPT ![t] = o]
    /\ UNCHANGED <<cache, now, ret, obs, lastSet>>
    /\ UNCHANGED notCacheVars

\* a thread calls get/set/delete/clear/get_stats/cleanup_expired and passes
\* "with self._lock:", the first statement of each of them; a caller that
\* finds the lock held blocks there
Acquire(t, o) ==
    /\ pc[t] = "idle"
    /\ lock = FALSE
    /\ lock' = TRUE
    /\ snap' = cache
    /\ pc' = [pc EXCEPT ![t] = "locked"]
    /\ op' = [op EXCEPT ![t] = o]
    /\ UNCHANGED <<cache, now, ret, obs, lastSet>>
    /\ UNCHANGED notCacheVars

\* what the body of a call leaves behind
Finish(t, c, r, s) ==
    /\ cache' = c
    /\ ret' = [ret EXCEPT ![t] = r]
    /\ obs' = [obs EXCEPT ![t] = [at |-> now, prior |-> lastSet]]
    /\ lastSet' = s
    /\ pc' = [pc EXCEPT ![t] = "done"]
    /\ UNCHANGED <<lock, now, op, snap>>
    /\ UNCHANGED notCacheVars

\* SQLCacheManager.get, inside the lock
Get(t) ==
    /\ pc[t] = "locked"
    /\ op[t].kind = "get"
    /\ LET r == GetBody(cache, op[t].key, op[t].ttl, now)
       IN  /\ r.ret # None => Lookup(r.cache, op[t].key).access_count <= MaxAccess
           /\ Finish(t, r.cache, r.ret, None)

SetEvictThenUnlock(t) ==
    /\ pc[t] = "locked"
    /\ op[t].kind = "set"
    /\ cache' = IF is_full(cache) THEN evict_lru(cache) ELSE cache
    /\ pc' = [pc EXCEPT ![t] = "insert"]
    /\ lock' = FALSE
    /\ UNCHANGED <<now, op, ret, obs, snap, lastSet>>
    /\ UNCHANGED notCacheVars

\* SQLCacheManager.set, inside the lock: the capacity check and the eviction
SetEvict(t) ==
    /\ pc[t] = "locked"
    /\ op[t].kind = "set"
    /\ cache' = IF is_full(cache) THEN evict_lru(cache) ELSE cache
    /\ pc' = [pc EXCEPT ![t] = "insert"]
    /\ UNCHANGED <<lock, now, op, ret, obs, snap, lastSet>>
    /\ UNCHANGED notCacheVars

\* SQLCacheManager.set, inside the lock: the assignment of the new entry
SetInsert(t) ==
    /\ pc[t] = "insert"
    /\ Finish(t, Put(cache, CacheEntry(op[t].key, op[t].data, now)), None,
              Some([key |-> op[t].key, data |-> op[t].data, at |-> now, by |-> t]))

\* SQLCacheManager.delete, inside the lock
Delete(t) ==
    /\ pc[t] = "locked"
    /\ op[t].kind = "delete"
    /\ LET r == DeleteBody(cache, op[t].key)
       IN  Finish(t, r.cache, r.ret, None)

\* SQLCacheManager.clear, inside the lock
Clear(t) ==
    /\ pc[t] = "locked"
    /\ op[t].kind = "clear"
    /\ Finish(t, <<>>, None, None)

\* SQLCacheManager.get_stats, inside the lock
GetStats(t) ==
    /\ pc[t] = "locked"
    /\ op[t].kind = "get_stats"
    /\ Finish(t, cache, GetStatsBody(cache, now), None)

\* SQLCacheManager.cleanup_expired, inside the lock
CleanupExpired(t) ==
    /\ pc[t] = "locked"
    /\ op[t].kind = "cleanup_expired"
    /\ LET r == CleanupBody(cache, now)
       IN  Finish(t, r.cache, r.ret, None)

\* with self._lock: exit, and the call returns
Release(t) ==
    /\ pc[t] = "done"
    /\ lock' = FALSE
    /\ pc' = [pc EXCEPT ![t] = "idle"]
    /\ op' = [op EXCEPT ![t] = NoCall]
    /\ ret' = [ret EXCEPT ![t] = None]
    /\ obs' = [obs EXCEPT ![t] = NoObs]
    /\ snap' = <<>>
    /\ UNCHANGED <<cache, now, lastSet>>
    /\ UNCHANGED notCacheVars

CacheNext ==
    \/ Tick
    \/ \E t \in Threads : \E o \in Calls : Acquire(t, o)
    \/ \E t \in Threads : Get(t)
    \/ \E t \in Threads : SetEvict(t)
    \/ \E t \in Threads : SetInsert(t)
    \/ \E t \in Threads : Delete(t)
    \/ \E t \in Threads : Clear(t)
    \/ \E t \in Threads : GetStats(t)
    \/ \E t \in Threads : CleanupExpired(t)
    \/ \E t \in Threads : Release(t)

----------------------------------------------------------------------------
(* Properties of the cache manager. *)

InCall(t) == pc[t] # "idle"

Returned(t, kind) == pc[t] = "done" /\ op[t].kind = kind

\* The get of thread t came right after a set of the same key, at the same
\* clock reading.
RightAfterSet(t) ==
    /\ Returned(t, "get")
    /\ obs[t].prior # None
    /\ obs[t].prior[1].key = op[t].key
    /\ obs[t].prior[1].at = obs[t].at

\* C1: set(k, v) followed immediately by get(k), with no operation and no
\* time in between, returns v (for a new key, an overwritten key, a full
\* cache; with the default ttl and with any explicit ttl of the model).
C1_SetThenGetReturnsValue ==
    \A t \in Threads :
        RightAfterSet(t) => ret[t] = Some(obs[t].prior[1].data)

\* C1 witness: such a get has returned the value v2, some time after the
\* start and in a full cache.
C1_Witness ==
    \E t \in Threads :
        /\ RightAfterSet(t)
        /\ ret[t] = Some("v2")
        /\ Len(snap) = MaxEntries
        /\ obs[t].at > 0

\* C2: a get(k) with the default TTL on an entry set at time t returns None
\* and removes k when the clock is beyond t + default_ttl, and otherwise
\* returns the stored value and keeps the entry.
C2_DefaultTtlExpiry ==
    \A t \in Threads :
        (Returned(t, "get") /\ op[t].ttl = None /\ HasKey(snap, op[t].key)) =>
            LET e == Lookup(snap, op[t].key)
            IN  IF obs[t].at > e.timestamp + DefaultTtl
                THEN ret[t] = None /\ ~HasKey(cache, op[t].key)
                ELSE /\ ret[t] = Some(e.data)
                     /\ HasKey(cache, op[t].key)
                     /\ Lookup(cache, op[t].key).timestamp = e.timestamp
                     /\ Lookup(cache, op[t].key).data = e.data

\* C2 witness: a default-TTL get found its entry too old and removed it.
C2_Witness ==
    \E t \in Threads :
        /\ Returned(t, "get") /\ op[t].ttl = None /\ HasKey(snap, op[t].key)
        /\ obs[t].at > Lookup(snap, op[t].key).timestamp + DefaultTtl
        /\ ret[t] = None

\* C14 (as claimed): a get(k, ttl) with a ttl supplied, 0 included, returns
\* the stored value exactly when k is present and now - timestamp <= ttl;
\* on a hit the entry's access count grows by one and nothing else changes.
C14_ExplicitTtlDecides ==
    \A t \in Threads :
        (Returned(t, "get") /\ op[t].ttl # None) =>
            LET hit == /\ HasKey(snap, op[t].key)
                       /\ obs[t].at - Lookup(snap, op[t].key).timestamp <= op[t].ttl[1]
            IN  /\ hit <=> ret[t] # None
                /\ hit =>
                      /\ ret[t] = Some(Lookup(snap, op[t].key).data)
                      /\ Len(cache) = Len(snap)
                      /\ \A i \in 1..Len(snap) :
                            cache[i] =
                                IF snap[i].key = op[t].key
                                THEN [snap[i] EXCEPT !.access_count = @ + 1]
                                ELSE snap[i]

\* The get of thread t passed a ttl of its own and found its entry older than
\* that ttl, yet not older than default_ttl.
CustomTtlExpiredOnly(t) ==
    /\ Returned(t, "get")
    /\ op[t].ttl # None
    /\ op[t].ttl[1] # 0
    /\ HasKey(snap, op[t].key)
    /\ obs[t].at - Lookup(snap, op[t].key).timestamp > op[t].ttl[1]
    /\ obs[t].at - Lookup(snap, op[t].key).timestamp <= DefaultTtl

C28_OverwriteKeepsOtherKeys ==
    \A t \in Threads :
        (Returned(t, "set") /\ HasKey(snap, op[t].key)) =>
            /\ KeysOf(cache) = KeysOf(snap)
            /\ \A i \in 1..Len(snap) :
                  snap[i].key # op[t].key => Lookup(cache, snap[i].key) = snap[i]

\* The set of thread t put a new key into a cache holding max_entries entries.
NewKeyIntoFull(t) ==
    /\ Returned(t, "set")
    /\ ~HasKey(snap, op[t].key)
    /\ Len(snap) = MaxEntries

\* C3: a set of a new key into a full cache removes exactly one entry, and
\* that entry has the least access count of the entries present before.
C3_EvictsLeastAccessed ==
    \A t \in Threads :
        NewKeyIntoFull(t) =>
            LET removed == KeysOf(snap) \ KeysOf(cache)
            IN  /\ Cardinality(removed) = 1
                /\ Len(cache) = MaxEntries
                /\ \A r \in removed : \A s \in KeysOf(snap) :
                       Lookup(snap, r).access_count <= Lookup(snap, s).access_count

\* C3 witness: the eviction had to choose between entries of different
\* access counts, the first inserted being the more used one.
C3_Witness ==
    \E t \in Threads :
        /\ NewKeyIntoFull(t)
        /\ snap[1].access_count > snap[Len(snap)].access_count

\* C4: whatever the interleaving of the threads' calls, the cache never holds
\* more than max_entries entries, and its entry count is the number of
\* distinct keys stored.
C4_CapacityUnderConcurrency ==
    /\ Len(cache) <= MaxEntries
    /\ Len(cache) = Cardinality(KeysOf(cache))

\* C4 witness: a set of one thread followed a set of another thread on a
\* different key, the cache being full before and after.
C4_Witness ==
    \E t \in Threads :
        /\ NewKeyIntoFull(t)
        /\ obs[t].prior # None
        /\ obs[t].prior[1].by # t
        /\ obs[t].prior[1].key # op[t].key
        /\ Len(cache) = MaxEntries

\* The entries of c whose age at time t is at most default_ttl, in c's order.
Young(c, t) == SelectSeq(c, LAMBDA e : t - e.timestamp <= DefaultTtl)

\* C18: cleanup_expired removes exactly the entries older than default_ttl,
\* leaves the others as they were (data, timestamp, access count), and returns
\* how many it removed; get_stats at the same instant then reports no expired
\* entry and a total reduced by that count.
C18_CleanupRemovesExactlyExpired ==
    \A t \in Threads :
        Returned(t, "cleanup_expired") =>
            /\ cache = Young(snap, obs[t].at)
            /\ ret[t] = Len(snap) - Len(cache)
            /\ GetStatsBody(cache, obs[t].at).expired_entries = 0
            /\ GetStatsBody(cache, obs[t].at).total_entries = Len(snap) - ret[t]

\* C18 witness: a cleanup_expired has removed an entry and kept another.
C18_Witness ==
    \E t \in Threads :
        /\ Returned(t, "cleanup_expired")
        /\ ret[t] >= 1
        /\ cache # <<>>

\* What the call of thread t yields when run alone on the cache it found.
SerialOutcome(t) ==
    CASE op[t].kind = "get" -> GetBody(snap, op[t].key, op[t].ttl, obs[t].at)
      [] op[t].kind = "set" ->
            [cache |-> SetBody(snap, op[t].key, op[t].data, obs[t].at), ret |-> None]
      [] op[t].kind = "delete" -> DeleteBody(snap, op[t].key)
      [] op[t].kind = "clear" -> [cache |-> <<>>, ret |-> None]
      [] op[t].kind = "get_stats" ->
            [cache |-> snap, ret |-> GetStatsBody(snap, obs[t].at)]
      [] op[t].kind = "cleanup_expired" -> CleanupBody(snap, obs[t].at)

\* C5: the lock is held exactly while a thread is inside an operation, at
\* most one thread is inside one, and each call leaves the cache and returns
\* the value that the same call yields when run alone on the cache it found.
C5_LockSerialisesCalls ==
    /\ Cardinality({t \in Threads : InCall(t)}) <= 1
    /\ lock <=> \E t \in Threads : InCall(t)
    /\ \A t \in Threads :
          pc[t] = "done" =>
              /\ cache = SerialOutcome(t).cache
              /\ ret[t] = SerialOutcome(t).ret

\* C5 witness: a thread is between the eviction and the insertion of a set,
\* holding the lock, after a call of another thread.
C5_Witness ==
    \E t \in Threads :
        /\ pc[t] = "insert"
        /\ lock
        /\ Len(cache) < Len(snap)
        /\ lastSet # None
        /\ lastSet[1].by # t

----------------------------------------------------------------------------
(* SQLDatabaseManager (workflow_sql/database.py). An exception is a value:   *)
(* "none" when the call returns, else the class of the exception raised.    *)

\* The dialect names _detect_dialect looks for.  A dialect string is known
\* by the set of these names that occur in it.
DialectNames ==
    {"sqlite", "postgresql", "postgres", "mysql", "mssql", "sqlserver", "oracle"}

\* "postgres" occurs in every string in which "postgresql" occurs.
DialectStrings ==
    {s \in SUBSET DialectNames :
        /\ "postgresql" \in s => "postgres" \in s
        /\ Cardinality(s) <= 2}

detect_dialect_postgres_first(s) ==
    IF "postgresql" \in s \/ "postgres" \in s THEN "POSTGRESQL"
    ELSE IF "sqlite" \in s THEN "SQLITE"
    ELSE IF "mysql" \in s THEN "MYSQL"
    ELSE IF "mssql" \in s \/ "sqlserver" \in s THEN "MSSQL"
    ELSE IF "oracle" \in s THEN "ORACLE"
    ELSE "SQLITE"

\* SQLDatabaseManager._detect_dialect
detect_dialect(s) ==
    IF "sqlite" \in s THEN "SQLITE"
    ELSE IF "postgresql" \in s \/ "postgres" \in s THEN "POSTGRESQL"
    ELSE IF "mysql" \in s THEN "MYSQL"
    ELSE IF "mssql" \in s \/ "sqlserver" \in s THEN "MSSQL"
    ELSE IF "oracle" \in s THEN "ORACLE"
    ELSE "SQLITE"

NotConnected == [db |-> FALSE, dialect |-> "None"]

\* SQLDatabaseManager._connect: the manager afterwards and the exception
connect(m, up, s) ==
    IF up
    THEN [m |-> [db |-> TRUE, dialect |-> detect_dialect(s)], exc |-> "none"]
    ELSE [m |-> m, exc |-> "DatabaseConnectionError"]

\* SQLDatabaseManager.db (property)
db_property(m, up, s) ==
    IF ~m.db THEN connect(m, up, s) ELSE [m |-> m, exc |-> "none"]

\* SQLDatabaseManager.get_dialect
get_dialect(m, up, s) ==
    IF m.dialect = "None" THEN connect(m, up, s) ELSE [m |-> m, exc |-> "none"]

\* a call on the wrapped SQLDatabase: it returns or raises
underlying(callOk) == IF callOk THEN "none" ELSE "Exception"

\* except Exception as e: raise QueryExecutionError(...) from e
as_query_error(exc) == IF exc = "none" THEN "none" ELSE "QueryExecutionError"

\* SQLDatabaseManager.get_table_names
get_table_names(m, up, s, callOk) ==
    LET c == db_property(m, up, s)
    IN  [m |-> c.m,
         exc |-> as_query_error(IF c.exc # "none" THEN c.exc ELSE underlying(callOk))]

\* SQLDatabaseManager.execute_query
execute_query(m, up, s, callOk) ==
    LET c == db_property(m, up, s)
    IN  [m |-> c.m,
         exc |-> as_query_error(IF c.exc # "none" THEN c.exc ELSE underlying(callOk))]

\* SQLDatabaseManager.get_table_schema; named = FALSE is table_names=None,
\* which first calls get_table_names (namesOk: whether that call succeeds)
get_table_schema(m, up, s, named, namesOk, callOk) ==
    LET n == IF named THEN [m |-> m, exc |-> "none"]
             ELSE get_table_names(m, up, s, namesOk)
        c == IF n.exc # "none" THEN n ELSE db_property(n.m, up, s)
    IN  [m |-> c.m,
         exc |-> as_query_error(IF c.exc # "none" THEN c.exc ELSE underlying(callOk))]

NoDbCall == [op |-> "none", exc |-> "none", connected |-> FALSE, up |-> FALSE,
             callsOk |-> TRUE]

\* SQLDatabaseManager.__init__
DbIdle ==
    /\ dbm = NotConnected
    /\ dbUp = FALSE
    /\ dbBackend = {"sqlite"}
    /\ dbOut = NoDbCall

DbInit ==
    /\ dbm = NotConnected
    /\ dbUp \in BOOLEAN
    /\ dbBackend \in DialectStrings
    /\ dbOut = NoDbCall

\* what a call of the manager leaves behind
DbReturn(name, r, callsOk) ==
    /\ dbm' = r.m
    /\ dbOut' = [op |-> name, exc |-> r.exc, connected |-> dbm.db, up |-> dbUp,
                 callsOk |-> callsOk]
    /\ UNCHANGED <<dbUp, dbBackend>>

\* the database server goes down or comes back
DbAvailability ==
    /\ dbUp' = ~dbUp
    /\ UNCHANGED <<dbm, dbBackend, dbOut>>
    /\ UNCHANGED notDbVars

DbProperty ==
    /\ DbReturn("db", db_property(dbm, dbUp, dbBackend), TRUE)
    /\ UNCHANGED notDbVars

GetDialect ==
    /\ DbReturn("get_dialect", get_dialect(dbm, dbUp, dbBackend), TRUE)
    /\ UNCHANGED notDbVars

GetTableNames(callOk) ==
    /\ DbReturn("get_table_names",
                get_table_names(dbm, dbUp, dbBackend, callOk), callOk)
    /\ UNCHANGED notDbVars

ExecuteQuery(callOk) ==
    /\ DbReturn("execute_query",
                execute_query(dbm, dbUp, dbBackend, callOk), callOk)
    /\ UNCHANGED notDbVars

GetTableSchema(named, namesOk, callOk) ==
    /\ DbReturn("get_table_schema",
                get_table_schema(dbm, dbUp, dbBackend, named, namesOk, callOk),
                callOk /\ (named \/ namesOk))
    /\ UNCHANGED notDbVars

DbNext ==
    \/ DbAvailability
    \/ DbProperty
    \/ GetDialect
    \/ \E callOk \in BOOLEAN : GetTableNames(callOk)
    \/ \E callOk \in BOOLEAN : ExecuteQuery(callOk)
    \/ \E named, namesOk, callOk \in BOOLEAN : GetTableSchema(named, namesOk, callOk)

\* The three operations of the database manager.
DbOperations == {"get_table_names", "get_table_schema", "execute_query"}

\* The last call needed a connection and could not get one.
ConnectionFailed == ~dbOut.connected /\ ~dbOut.up

\* C6 (as claimed): each of the three operations raises
\* DatabaseConnectionError when the connection cannot be established, and
\* QueryExecutionError when the connection is there and the underlying call
\* fails.
C6_ErrorTranslation ==
    dbOut.op \in DbOperations =>
        /\ ConnectionFailed => dbOut.exc = "DatabaseConnectionError"
        /\ (~ConnectionFailed /\ ~dbOut.callsOk) => dbOut.exc = "QueryExecutionError"

\* DatabaseDialect
DatabaseDialect == {"SQLITE", "POSTGRESQL", "MYSQL", "MSSQL", "ORACLE"}

----------------------------------------------------------------------------
(* Messages (langchain_core.messages) as the nodes read them.  role: human,  *)
(* ai, tool, or dict (a plain mapping, without attributes).  tag: the class *)
(* of the content; val: the query result the content carries ("" if none);  *)
(* calls: tool_calls, each with its name and its args["query"] ("" if the   *)
(* call has none).  Only an ai message has the attribute tool_calls.        *)

Message(role, tag, val, calls) ==
    [role |-> role, tag |-> tag, val |-> val, calls |-> calls]

AIMessage(tag, val, calls) == Message("ai", tag, val, calls)

ToolCall(name, query) == [name |-> name, query |-> query]

END == "__end__"

Queries == {"q1", "q2"}

\* What a tool call of a model response can be.
ToolCalls ==
    {ToolCall("sql_db_query", q) : q \in Queries \cup {""}}
    \cup {ToolCall("sql_db_schema", "")}

\* tool_calls of a model response: none, one or two calls
ToolCallLists ==
    {<<>>} \cup {<<c>> : c \in ToolCalls} \cup {<<c, d>> : c, d \in ToolCalls}

\* hasattr(last_message, 'tool_calls') and last_message.tool_calls
HasToolCalls(m) == m.role = "ai" /\ m.calls # <<>>

last_tool_call(m) == m.calls[Len(m.calls)]

\* tool_call = last_message.tool_calls[0]
first_tool_call(m) == m.calls[1]

\* the body of should_continue, before its except clause
should_continue_body(st) ==
    IF ~st.hasMessages THEN [exc |-> "KeyError", val |-> END]
    ELSE IF st.messages = <<>> THEN [exc |-> "IndexError", val |-> END]
    ELSE LET last_message == st.messages[Len(st.messages)]
         IN  IF HasToolCalls(last_message)
             THEN IF first_tool_call(last_message).name = "sql_db_query"
                  THEN [exc |-> "none", val |-> "check_query"]
                  ELSE [exc |-> "none", val |-> END]
             ELSE [exc |-> "none", val |-> END]

\* should_continue: what it returns, and the exception it lets through
should_continue(st) ==
    LET r == should_continue_body(st)
    IN  IF r.exc # "none" THEN [exc |-> "none", val |-> END] ELSE r

----------------------------------------------------------------------------
(* The six nodes (workflow_sql/nodes.py).  The body of execute yields the    *)
(* messages it returns or the exception raised inside it; env says which of *)
(* the things the body relies on work.                                      *)

Returns(msgs) == [exc |-> "none", msgs |-> msgs]

Raises(e) == [exc |-> e, msgs |-> <<>>]

ErrorMessage == AIMessage("error", "", <<>>)

execute_uncaught(body) ==
    IF body.exc # "none" THEN [raised |-> TRUE, failed |-> TRUE, msgs |-> <<>>]
    ELSE [raised |-> FALSE, failed |-> FALSE, msgs |-> body.msgs]

\* try: ... except Exception as e: return {"messages": [error_message]}
execute(body) ==
    IF body.exc # "none"
    THEN [raised |-> FALSE, failed |-> TRUE, msgs |-> <<ErrorMessage>>]
    ELSE [raised |-> FALSE, failed |-> FALSE, msgs |-> body.msgs]

\* SQLToolManager.get_required_tool and tool.invoke
tool_invoke(env) ==
    IF ~env.toolFound THEN "ToolNotFoundError"
    ELSE IF ~env.invokeOk THEN "Exception"
    ELSE "none"

\* ListTablesNode.execute, inside the try
list_tables_body(env) ==
    IF tool_invoke(env) # "none" THEN Raises(tool_invoke(env))
    ELSE Returns(<<AIMessage("empty", "", <<ToolCall("sql_db_list_tables", "")>>),
                   Message("tool", "toolout", env.result, <<>>),
                   AIMessage("tables", "", <<>>)>>)

\* GetSchemaNode.execute: table names are found in the history when a
\* message announces the tables and a tool message has content
TableNamesInHistory(msgs) ==
    /\ \E i \in 1..Len(msgs) : msgs[i].tag = "tables"
    /\ \E i \in 1..Len(msgs) : msgs[i].role = "tool" /\ msgs[i].val # ""

\* GetSchemaNode.execute, inside the try
get_relative_schema_body(msgs, env) ==
    IF ~TableNamesInHistory(msgs) /\ ~env.dbOk THEN Raises("QueryExecutionError")
    ELSE IF tool_invoke(env) # "none" THEN Raises(tool_invoke(env))
    ELSE Returns(<<AIMessage("empty", "", <<ToolCall("sql_db_schema", "")>>),
                   Message("tool", "toolout", env.result, <<>>),
                   AIMessage("schema", "", <<>>)>>)

\* GenerateQueryNode.execute, inside the try: get_dialect, get_query_tool,
\* and the model call, whose response is any ai message
generate_query_body(env) ==
    IF ~env.dbOk THEN Raises("DatabaseConnectionError")
    ELSE IF ~env.toolFound THEN Raises("ToolNotFoundError")
    ELSE IF ~env.llmOk THEN Raises("Exception")
    ELSE Returns(<<AIMessage(env.tag, "", env.calls)>>)

\* CheckQueryNode.execute, inside the try
check_query_body(msgs, env) ==
    IF msgs = <<>> THEN Raises("IndexError")
    ELSE LET last_message == msgs[Len(msgs)]
         IN  IF ~HasToolCalls(last_message) THEN Returns(<<ErrorMessage>>)
             ELSE IF first_tool_call(last_message).query = ""
                  THEN Returns(<<ErrorMessage>>)
             ELSE IF ~env.dbOk THEN Raises("DatabaseConnectionError")
             ELSE IF tool_invoke(env) # "none" THEN Raises(tool_invoke(env))
             ELSE Returns(
                 <<AIMessage("empty", "",
                     <<ToolCall("sql_db_query", first_tool_call(last_message).query)>>),
                   Message("tool", "toolout", env.result, <<>>),
                   AIMessage("done", env.result, <<>>)>>)

\* AnswerGenerationNode.execute, inside the try
answer_generation_body(msgs, env) ==
    IF ~env.llmOk THEN Raises("Exception")
    ELSE Returns(<<AIMessage(env.tag, "", <<>>)>>)

\* ChartGenerationNode._extract_chart_data: query_result, the result of the
\* last message announcing an executed query
ChartQueryResult(msgs) ==
    LET I == {i \in 1..Len(msgs) : msgs[i].tag = "done"}
    IN  IF I = {} THEN ""
        ELSE msgs[CHOOSE i \in I : \A j \in I : j <= i].val

\* What can go wrong between the node and the chart server.
ChartEnvs ==
    {"ok", "loop_error", "tools_error", "no_tools", "create_agent_error",
     "agent_timeout", "agent_error", "no_url", "invalid_url"}

\* AsyncChartGenerator.generate_chart: the text it returns
generate_chart(enabled, env) ==
    IF ~enabled THEN "chart_off"
    ELSE IF env = "tools_error" THEN "chart_failed_tools"
    ELSE IF env = "no_tools" THEN "chart_failed_no_tools"
    ELSE IF env = "create_agent_error" THEN "chart_failed_error"
    ELSE IF env = "agent_timeout" THEN "chart_failed_timeout"
    ELSE IF env = "agent_error" THEN "chart_failed_agent"
    ELSE IF env = "no_url" THEN "chart_failed_no_url"
    ELSE IF env = "invalid_url" THEN "chart_failed_invalid_url"
    ELSE "chart_done"

\* run_async_chart_generation: the text it returns, and the exception it
\* lets through
run_async_chart_generation(enabled, env) ==
    IF env = "loop_error"
    THEN [exc |-> "none", text |-> "chart_failed_wrapper"]
    ELSE [exc |-> "none", text |-> generate_chart(enabled, env)]

\* ChartGenerationNode.execute, inside the outer try
chart_generation_body(msgs, enabled, env) ==
    IF ~enabled THEN Returns(<<AIMessage("chart_off", "", <<>>)>>)
    ELSE IF ChartQueryResult(msgs) = ""
         THEN Returns(<<AIMessage("chart_no_result", "", <<>>)>>)
    ELSE LET r == run_async_chart_generation(enabled, env.chart)
         IN  IF r.exc = "none" THEN Returns(<<AIMessage(r.text, "", <<>>)>>)
             ELSE Returns(<<AIMessage("chart_recommendation", "", <<>>)>>)

----------------------------------------------------------------------------
(* The pipeline (workflow_sql/graph_builder.py). *)

Results == {"r1", ""}

\* Whether the tool lookup, the tool call, the database and the model work in
\* a node, and what the tool or the model answers.
ToolEnvs ==
    {[toolFound |-> a, invokeOk |-> b, dbOk |-> c, result |-> r] :
        a, b, c \in BOOLEAN, r \in Results}

ModelEnvs ==
    {[toolFound |-> a, dbOk |-> c, llmOk |-> l, tag |-> g, calls |-> cs] :
        a, c, l \in BOOLEAN, g \in {"text", "empty"}, cs \in ToolCallLists}

\* Whether the model works when the answer is written, and what it writes.
AnswerEnvs == {[llmOk |-> l, tag |-> g] : l \in BOOLEAN, g \in {"text", "empty"}}

NodeNames ==
    {"list_tables", "get_relative_schema", "generate_query", "check_query",
     "answer_generation", "chart_generation"}

\* The external calls a node attempts, in order, for what works around it.

\* ListTablesNode.execute: list_tables_tool.invoke
list_tables_calls(env) ==
    IF env.toolFound THEN <<"sql_db_list_tables">> ELSE <<>>

\* GetSchemaNode.execute: db_manager.get_table_names when the history names
\* no table, then schema_tool.invoke
get_relative_schema_calls(msgs, env) ==
    (IF TableNamesInHistory(msgs) THEN <<>> ELSE <<"get_table_names">>)
    \o (IF (TableNamesInHistory(msgs) \/ env.dbOk) /\ env.toolFound
        THEN <<"sql_db_schema">> ELSE <<>>)

\* GenerateQueryNode.execute: llm_with_tools.invoke
generate_query_calls(env) ==
    IF env.dbOk /\ env.toolFound THEN <<"generate_query_model">> ELSE <<>>

\* CheckQueryNode.execute invoking the query tool again after a failure
check_query_calls_retry(msgs, env) ==
    IF msgs = <<>> THEN <<>>
    ELSE IF ~HasToolCalls(msgs[Len(msgs)]) THEN <<>>
    ELSE IF first_tool_call(msgs[Len(msgs)]).query = "" THEN <<>>
    ELSE IF ~env.dbOk \/ ~env.toolFound THEN <<>>
    ELSE IF ~env.invokeOk THEN <<"sql_db_query", "sql_db_query">>
    ELSE <<"sql_db_query">>

\* CheckQueryNode.execute: query_tool.invoke
check_query_calls(msgs, env) ==
    IF msgs = <<>> THEN <<>>
    ELSE IF ~HasToolCalls(msgs[Len(msgs)]) THEN <<>>
    ELSE IF first_tool_call(msgs[Len(msgs)]).query = "" THEN <<>>
    ELSE IF ~env.dbOk \/ ~env.toolFound THEN <<>>
    ELSE <<"sql_db_query">>

\* AnswerGenerationNode.execute: llm.invoke
answer_generation_calls(env) == <<"answer_generation_model">>

\* ChartGenerationNode.execute and generate_chart: client.get_tools, then
\* chart_agent.ainvoke
chart_generation_calls(msgs, enabled, c) ==
    IF ~enabled \/ ChartQueryResult(msgs) = "" \/ c = "loop_error" THEN <<>>
    ELSE IF c \in {"tools_error", "no_tools", "create_agent_error"}
    THEN <<"chart_tools">>
    ELSE <<"chart_tools", "chart_agent">>

NoOutput == [node |-> "none", raised |-> FALSE, failed |-> FALSE, count |-> 0,
             chart |-> "none", result |-> ""]

Question == Message("human", "question", "", <<>>)

PipeIdle ==
    /\ node = END
    /\ messages = <<>>
    /\ chartOn = TRUE
    /\ ran = <<>>
    /\ lastOut = NoOutput
    /\ routed = "none"
    /\ attempts = <<>>

\* graph.invoke({"messages": [...]}): START -> list_tables
PipeInit ==
    /\ node = "list_tables"
    /\ messages \in {<<>>, <<Question>>}
    /\ chartOn \in BOOLEAN
    /\ ran = <<>>
    /\ lastOut = NoOutput
    /\ routed = "none"
    /\ attempts = <<>>

\* The graph runs node n, which returns r; the messages are appended and the
\* edge to next is taken.  An exception leaving the node ends the run.
RunNode(n, r, next, chart, attempted) ==
    /\ messages' = messages \o r.msgs
    /\ node' = IF r.raised THEN "aborted" ELSE next
    /\ ran' = Append(ran, n)
    /\ lastOut' = [node |-> n, raised |-> r.raised, failed |-> r.failed,
                   count |-> Len(r.msgs), chart |-> chart,
                   result |-> ChartQueryResult(messages)]
    /\ attempts' = attempts \o attempted
    /\ routed' = IF n = "generate_query" THEN next ELSE routed
    /\ UNCHANGED chartOn
    /\ UNCHANGED notPipeVars

ListTables(env) ==
    /\ node = "list_tables"
    /\ RunNode("list_tables", execute(list_tables_body(env)),
               "get_relative_schema", "none", list_tables_calls(env))

GetRelativeSchema(env) ==
    /\ node = "get_relative_schema"
    /\ RunNode("get_relative_schema",
               execute(get_relative_schema_body(messages, env)),
               "generate_query", "none",
               get_relative_schema_calls(messages, env))

\* generate_query, then the conditional edge should_continue
GenerateQuery(env) ==
    /\ node = "generate_query"
    /\ LET r == execute(generate_query_body(env))
       IN  RunNode("generate_query", r,
                   should_continue([hasMessages |-> TRUE,
                                    messages |-> messages \o r.msgs]).val,
                   "none", generate_query_calls(env))

\* check_query going back to generate_query for another attempt
CheckQueryThenRegenerate(env) ==
    /\ node = "check_query"
    /\ RunNode("check_query", execute(check_query_body(messages, env)),
               "generate_query", "none", check_query_calls(messages, env))

CheckQuery(env) ==
    /\ node = "check_query"
    /\ RunNode("check_query", execute(check_query_body(messages, env)),
               "answer_generation", "none", check_query_calls(messages, env))

AnswerGeneration(env) ==
    /\ node = "answer_generation"
    /\ RunNode("answer_generation",
               execute(answer_generation_body(messages, env)),
               "chart_generation", "none", answer_generation_calls(env))

\* chart_generation with an edge back to the beginning of the graph
ChartGenerationRestarts(c) ==
    /\ node = "chart_generation"
    /\ RunNode("chart_generation",
               execute(chart_generation_body(messages, chartOn, [chart |-> c])),
               "list_tables", c, chart_generation_calls(messages, chartOn, c))

ChartGeneration(c) ==
    /\ node = "chart_generation"
    /\ RunNode("chart_generation",
               execute(chart_generation_body(messages, chartOn, [chart |-> c])),
               END, c, chart_generation_calls(messages, chartOn, c))

PipeNext ==
    \/ \E env \in ToolEnvs : ListTables(env)
    \/ \E env \in ToolEnvs : GetRelativeSchema(env)
    \/ \E env \in ModelEnvs : GenerateQuery(env)
    \/ \E env \in ToolEnvs : CheckQuery(env)
    \/ \E env \in AnswerEnvs : AnswerGeneration(env)
    \/ \E c \in ChartEnvs : ChartGeneration(c)

\* C7: whatever fails inside a node, execute does not raise and returns at
\* least one message; so a run that has ended has ended with a message that
\* a node appended.
C7_NodesNeverRaise ==
    /\ lastOut.node \in NodeNames => ~lastOut.raised /\ lastOut.count >= 1
    /\ node # "aborted"
    /\ node = END =>
          /\ ran # <<>>
          /\ lastOut.node = ran[Len(ran)]
          /\ lastOut.count >= 1
          /\ Len(messages) >= lastOut.count

\* C7 witness: something failed inside check_query, which returned one
\* message, and the run went on to its end.
C7_Witness ==
    /\ node = END
    /\ \E i \in 1..Len(ran) : ran[i] = "check_query"
    /\ \E i \in 1..Len(messages) : messages[i].tag = "error"
    /\ lastOut.node = "chart_generation"
    /\ ~lastOut.raised

\* The chart node ran with the feature enabled and a query result in the
\* history, and generation through the chart server failed.
ChartServerFailed ==
    /\ lastOut.node = "chart_generation"
    /\ chartOn
    /\ lastOut.result # ""
    /\ lastOut.chart # "ok"

\* C9 (as claimed): when generation through the chart server fails,
\* chart_generation appends a chart recommendation, not a failure message.
C9_FallsBackToRecommendation ==
    ChartServerFailed =>
        messages[Len(messages)].tag = "chart_recommendation"

\* The place of node n in a run: the nodes that may stand right before it
\* ("START" for the beginning of the run).
RanBefore(i) == IF i = 1 THEN "START" ELSE ran[i - 1]

\* C19: the nodes run in the order list_tables, get_relative_schema,
\* generate_query; check_query runs only right after generate_query and only
\* when should_continue returned "check_query"; answer_generation only right
\* after check_query, chart_generation only right after answer_generation;
\* nothing runs before list_tables, and the query tool is not invoked in a
\* run in which should_continue returned END.
C19_FixedNodeOrder ==
    /\ \A i \in 1..Len(ran) :
          /\ ran[i] = "list_tables" <=> i = 1
          /\ ran[i] = "get_relative_schema" <=> i = 2
          /\ ran[i] = "generate_query" <=> i = 3
          /\ ran[i] = "check_query" =>
                RanBefore(i) = "generate_query" /\ routed = "check_query"
          /\ ran[i] = "answer_generation" => RanBefore(i) = "check_query"
          /\ ran[i] = "chart_generation" => RanBefore(i) = "answer_generation"
    /\ routed = "none" <=> Len(ran) < 3
    /\ routed = END =>
          /\ node = END
          /\ Len(ran) = 3
          /\ \A j \in 1..Len(attempts) : attempts[j] # "sql_db_query"

\* C19 witness: a run through all six nodes has ended, the query tool having
\* been invoked.
C19_Witness ==
    /\ node = END
    /\ routed = "check_query"
    /\ ran = <<"list_tables", "get_relative_schema", "generate_query",
               "check_query", "answer_generation", "chart_generation">>
    /\ \E j \in 1..Len(attempts) : attempts[j] = "sql_db_query"

\* How often node n has run.
TimesRun(n) == Cardinality({i \in 1..Len(ran) : ran[i] = n})

\* No node has run twice, and a run that is over ended after generate_query
\* with END returned by should_continue, or after chart_generation.
RunIsAcyclic ==
    /\ \A n \in NodeNames : TimesRun(n) <= 1
    /\ \A i \in 1..Len(ran) : ran[i] \in NodeNames
    /\ node \in NodeNames \cup {END}
    /\ node \in NodeNames => TimesRun(node) = 0
    /\ node = END =>
          \/ ran[Len(ran)] = "generate_query" /\ routed = END
          \/ ran[Len(ran)] = "chart_generation"

ExternalCalls ==
    {"sql_db_list_tables", "get_table_names", "sql_db_schema",
     "generate_query_model", "sql_db_query", "answer_generation_model",
     "chart_tools", "chart_agent"}

Attempts(c) == Cardinality({j \in 1..Len(attempts) : attempts[j] = c})

\* C20: in one run each external call (list-tables tool, schema tool, model
\* call of generate_query, query tool, model call of answer_generation,
\* chart-tool fetch, chart-agent call) is attempted at most once, so a call
\* that failed is not attempted again.
C20_EachCallAtMostOnce ==
    /\ \A j \in 1..Len(attempts) : attempts[j] \in ExternalCalls
    /\ \A c \in ExternalCalls : Attempts(c) <= 1

\* C20 witness: a run has ended in which the query tool was invoked once and
\* failed, no message announcing an executed query having been appended.
C20_Witness ==
    /\ node = END
    /\ Attempts("sql_db_query") = 1
    /\ Attempts("generate_query_model") = 1
    /\ \A i \in 1..Len(messages) : messages[i].tag # "done"
    /\ \E i \in 1..Len(ran) : ran[i] = "chart_generation"

----------------------------------------------------------------------------
(* should_continue on any state it may be given. *)

\* Messages that can stand last in the history.
LastMessages ==
    {AIMessage(g, "", cs) : g \in {"text", "empty"}, cs \in ToolCallLists}
    \cup {Message(r, "text", "", <<>>) : r \in {"human", "tool", "dict"}}

\* The states should_continue is applied to: without the key "messages",
\* with no message, with one or with two.
RouteStates ==
    {[hasMessages |-> FALSE, messages |-> <<>>],
     [hasMessages |-> TRUE, messages |-> <<>>]}
    \cup {[hasMessages |-> TRUE, messages |-> <<m>>] : m \in LastMessages}
    \cup {[hasMessages |-> TRUE, messages |-> <<Question, m>>] : m \in LastMessages}

NoRoute == [exc |-> "none", val |-> "none"]

RouteIdle ==
    /\ routeIn = [hasMessages |-> FALSE, messages |-> <<>>]
    /\ routeOut = NoRoute

RouteInit ==
    /\ routeIn \in RouteStates
    /\ routeOut = NoRoute

\* the graph evaluates the conditional edge
Route ==
    /\ routeOut = NoRoute
    /\ routeOut' = should_continue(routeIn)
    /\ UNCHANGED routeIn
    /\ UNCHANGED notRouteVars

\* the graph is given another state
RouteAgain ==
    /\ routeOut # NoRoute
    /\ routeIn' \in RouteStates
    /\ routeOut' = NoRoute
    /\ UNCHANGED notRouteVars

RouteNext == Route \/ RouteAgain

Routed == routeOut # NoRoute

RouteLast == routeIn.messages[Len(routeIn.messages)]

\* The last message of the state carries tool calls.
RouteHasCalls ==
    /\ routeIn.hasMessages
    /\ routeIn.messages # <<>>
    /\ HasToolCalls(RouteLast)

\* C8 (as claimed): should_continue returns check_query when the sole tool
\* call of the last message is sql_db_query, and END when the last message
\* carries any tool call of another name, carries no tool call, or the
\* history is empty or malformed; it never raises.
C8_RoutesOnSoleQueryCall ==
    Routed =>
        /\ routeOut.exc = "none"
        /\ (RouteHasCalls /\ Len(RouteLast.calls) = 1
               /\ RouteLast.calls[1].name = "sql_db_query")
              => routeOut.val = "check_query"
        /\ (RouteHasCalls
               /\ \E i \in 1..Len(RouteLast.calls) :
                      RouteLast.calls[i].name # "sql_db_query")
              => routeOut.val = END
        /\ ~RouteHasCalls => routeOut.val = END

\* C8 (amended): should_continue returns check_query exactly when the first
\* tool call of the last message is sql_db_query, whatever calls follow it,
\* and END otherwise: the first tool call has another name, there is no tool
\* call, the history is empty or malformed; it never raises.
C8_RoutesOnFirstCall ==
    Routed =>
        /\ routeOut.exc = "none"
        /\ routeOut.val \in {"check_query", END}
        /\ routeOut.val = "check_query" <=>
              (RouteHasCalls /\ RouteLast.calls[1].name = "sql_db_query")

\* C8 witness: the last message asks for sql_db_query first and for another
\* tool second, and is routed to check_query.
C8_Witness ==
    /\ Routed
    /\ RouteHasCalls
    /\ Len(RouteLast.calls) = 2
    /\ RouteLast.calls[1].name = "sql_db_query"
    /\ RouteLast.calls[2].name # "sql_db_query"
    /\ routeOut.val = "check_query"

----------------------------------------------------------------------------
(* MCP tool loading (src/agent/mcp_manager.py, src/agent/graph.py). *)

\* agent_config.get_default_mcp_servers
Servers == {"chart", "bingcn"}

\* The tools client.get_tools() lists for the configured servers, in the
\* order of the configuration.
ToolsOf(S) ==
    (IF "chart" \in S THEN <<"generate_chart">> ELSE <<>>)
    \o (IF "bingcn" \in S THEN <<"bing_search">> ELSE <<>>)

local_tools == <<"get_current_time", "get_weather", "calculate", "search_knowledge">>

\* How a load can go: the event loop cannot be run, the client cannot be
\* created, the servers do not list their tools, or all works.
McpEnvs == {"ok", "loop_error", "client_error", "tools_error"}

McpConfigs == [enable_mcp : BOOLEAN, enabled : SUBSET Servers]

\* _load_mcp_tools_async, inside the try: the exception raised, the tools
\* returned, self.mcp_client afterwards, and whether a client was created
load_mcp_tools_async_body(cfg, client, env) ==
    IF ~cfg.enable_mcp
    THEN [exc |-> "none", tools |-> <<>>, client |-> client, created |-> FALSE]
    ELSE IF cfg.enabled = {}
    THEN [exc |-> "none", tools |-> <<>>, client |-> client, created |-> FALSE]
    ELSE IF env = "client_error"
    THEN [exc |-> "Exception", tools |-> <<>>, client |-> client, created |-> FALSE]
    ELSE IF env = "tools_error"
    THEN [exc |-> "Exception", tools |-> <<>>, client |-> Some(cfg.enabled),
          created |-> TRUE]
    ELSE [exc |-> "none", tools |-> ToolsOf(cfg.enabled),
          client |-> Some(cfg.enabled), created |-> TRUE]

\* _load_mcp_tools_async: except Exception: return []
load_mcp_tools_async(cfg, client, env) ==
    LET r == load_mcp_tools_async_body(cfg, client, env)
    IN  IF r.exc # "none" THEN [r EXCEPT !.exc = "none", !.tools = <<>>] ELSE r

load_mcp_tools_uncaught(cfg, tools, client, env) ==
    IF env = "loop_error"
    THEN [exc |-> "RuntimeError", ret |-> <<>>, mcp_tools |-> tools,
          mcp_client |-> client, created |-> FALSE]
    ELSE LET r == load_mcp_tools_async(cfg, client, env)
         IN  [exc |-> r.exc, ret |-> r.tools, mcp_tools |-> r.tools,
              mcp_client |-> r.client, created |-> r.created]

\* MCPToolManager.load_mcp_tools: self.mcp_tools = asyncio.run(...), and
\* return [] when that raises
load_mcp_tools(cfg, tools, client, env) ==
    IF env = "loop_error"
    THEN [exc |-> "none", ret |-> <<>>, mcp_tools |-> tools,
          mcp_client |-> client, created |-> FALSE]
    ELSE LET r == load_mcp_tools_async(cfg, client, env)
         IN  IF r.exc # "none"
             THEN [exc |-> "none", ret |-> <<>>, mcp_tools |-> tools,
                   mcp_client |-> r.client, created |-> r.created]
             ELSE [exc |-> "none", ret |-> r.tools, mcp_tools |-> r.tools,
                   mcp_client |-> r.client, created |-> r.created]

\* graph.load_mcp_tools_official: both servers, whatever the configuration
load_mcp_tools_official(env) ==
    IF env \in {"client_error", "tools_error"} THEN <<>> ELSE ToolsOf(Servers)

\* graph.load_mcp_tools_sync
load_mcp_tools_sync(env) ==
    IF env = "loop_error" THEN <<>> ELSE load_mcp_tools_official(env)

NoMcpCall == [op |-> "none", exc |-> "none", ret |-> <<>>, created |-> FALSE,
              env |-> "ok"]

McpIdle ==
    /\ mcpConfig = [enable_mcp |-> FALSE, enabled |-> {}]
    /\ mcp_tools = <<>>
    /\ mcp_client = None
    /\ mcpOut = NoMcpCall
    /\ all_tools = None

\* MCPToolManager.__init__, with any configuration
McpInit ==
    /\ mcpConfig \in McpConfigs
    /\ mcp_tools = <<>>
    /\ mcp_client = None
    /\ mcpOut = NoMcpCall
    /\ all_tools = None

McpReturn(name, r, env) ==
    /\ mcp_tools' = r.mcp_tools
    /\ mcp_client' = r.mcp_client
    /\ mcpOut' = [op |-> name, exc |-> r.exc, ret |-> r.ret,
                  created |-> r.created, env |-> env]
    /\ UNCHANGED <<mcpConfig, all_tools>>
    /\ UNCHANGED notMcpVars

LoadMcpTools(env) ==
    /\ mcpOut.op # "load_mcp_tools"
    /\ McpReturn("load_mcp_tools",
                 load_mcp_tools(mcpConfig, mcp_tools, mcp_client, env), env)

\* reload_tools: return self.load_mcp_tools()
ReloadTools(env) ==
    /\ mcpOut.op # "none"
    /\ McpReturn("reload_tools",
                 load_mcp_tools(mcpConfig, mcp_tools, mcp_client, env), env)

\* get_tools
GetTools ==
    /\ mcpOut.op \notin {"none", "get_tools"}
    /\ mcpOut' = [op |-> "get_tools", exc |-> "none", ret |-> mcp_tools,
                  created |-> FALSE, env |-> "ok"]
    /\ UNCHANGED <<mcpConfig, mcp_tools, mcp_client, all_tools>>
    /\ UNCHANGED notMcpVars

\* The configuration, which the manager holds by reference, is changed.
Configure(cfg) ==
    /\ mcpOut.op # "none"
    /\ cfg # mcpConfig
    /\ mcpConfig' = cfg
    /\ mcpOut' = NoMcpCall
    /\ UNCHANGED <<mcp_tools, mcp_client, all_tools>>
    /\ UNCHANGED notMcpVars

\* agent/graph.py is loaded: all_tools = local_tools + mcp_tools
LoadGraph(env) ==
    /\ all_tools = None
    /\ all_tools' = Some(local_tools \o load_mcp_tools_sync(env))
    /\ mcpOut' = [op |-> "graph", exc |-> "none", ret |-> load_mcp_tools_sync(env),
                  created |-> env \in {"ok", "tools_error"}, env |-> env]
    /\ UNCHANGED <<mcpConfig, mcp_tools, mcp_client>>
    /\ UNCHANGED notMcpVars

McpNext ==
    \/ \E env \in McpEnvs : LoadMcpTools(env)
    \/ \E env \in McpEnvs : ReloadTools(env)
    \/ GetTools
    \/ \E cfg \in McpConfigs : Configure(cfg)
    \/ \E env \in McpEnvs : LoadGraph(env)

McpDisabled == ~mcpConfig.enable_mcp \/ mcpConfig.enabled = {}

\* C10: load_mcp_tools never raises; it returns an empty list when the load
\* fails, and when MCP is disabled or no server is enabled it returns an
\* empty list and creates no client; the graph built after a failed load
\* has the local tools only.
C10_LoadNeverRaises ==
    /\ mcpOut.op \in {"load_mcp_tools", "reload_tools"} =>
          /\ mcpOut.exc = "none"
          /\ mcpOut.env # "ok" => mcpOut.ret = <<>>
          /\ McpDisabled => mcpOut.ret = <<>> /\ ~mcpOut.created
    /\ (mcpOut.op = "graph" /\ mcpOut.env # "ok") =>
          /\ mcpOut.exc = "none"
          /\ all_tools = Some(local_tools)

\* C10 witness: with tools loaded earlier and a server enabled, a reload
\* during which the event loop cannot be run returns an empty list.
C10_Witness ==
    /\ mcpOut.op = "reload_tools"
    /\ mcpOut.env = "loop_error"
    /\ ~McpDisabled
    /\ mcp_tools # <<>>
    /\ mcpOut.ret = <<>>
    /\ mcpOut.exc = "none"

\* C30 (as claimed): after load_mcp_tools or reload_tools has returned,
\* get_tools() returns the list the call returned and get_tool_count its
\* length, also when the load failed and the call returned an empty list.
C30_GetToolsIsLastLoad ==
    mcpOut.op \in {"load_mcp_tools", "reload_tools"} =>
        /\ mcp_tools = mcpOut.ret
        /\ Len(mcp_tools) = Len(mcpOut.ret)

----------------------------------------------------------------------------
(* load_mcp_tools step by step: asyncio.run drives _load_mcp_tools_async,   *)
(* which waits at "await self.mcp_client.get_tools()" until the servers     *)
(* answer or the request fails.                                             *)

\* What the enabled servers do with the tool-list request.
ServerModes == {"answers", "fails", "silent"}

NotLoading == [pc |-> "idle", server |-> "answers"]

McpLoadIdle == mcpLoad = NotLoading

\* load_mcp_tools is called.  With MCP disabled or no server enabled it
\* returns at once; otherwise the client is created and the coroutine waits
\* for the tool list.
BeginLoad(mode) ==
    /\ mcpLoad.pc = "idle"
    /\ mcpOut.op # "load_mcp_tools"
    /\ IF ~mcpConfig.enable_mcp \/ mcpConfig.enabled = {}
       THEN /\ mcp_tools' = <<>>
            /\ mcpOut' = [op |-> "load_mcp_tools", exc |-> "none", ret |-> <<>>,
                          created |-> FALSE, env |-> "ok"]
            /\ UNCHANGED <<mcp_client, mcpLoad>>
       ELSE /\ mcp_client' = Some(mcpConfig.enabled)
            /\ mcpLoad' = [pc |-> "waiting", server |-> mode]
            /\ mcpOut' = NoMcpCall
            /\ UNCHANGED mcp_tools
    /\ UNCHANGED <<mcpConfig, all_tools>>
    /\ UNCHANGED notMcpLoadVars

\* the servers list their tools: get_tools returns and load_mcp_tools does
FetchReturns ==
    /\ mcpLoad.pc = "waiting"
    /\ mcpLoad.server = "answers"
    /\ mcp_tools' = ToolsOf(mcp_client[1])
    /\ mcpOut' = [op |-> "load_mcp_tools", exc |-> "none",
                  ret |-> ToolsOf(mcp_client[1]), created |-> TRUE, env |-> "ok"]
    /\ mcpLoad' = NotLoading
    /\ UNCHANGED <<mcpConfig, mcp_client, all_tools>>
    /\ UNCHANGED notMcpLoadVars

\* the request fails: get_tools raises, _load_mcp_tools_async returns []
FetchFails ==
    /\ mcpLoad.pc = "waiting"
    /\ mcpLoad.server = "fails"
    /\ mcp_tools' = <<>>
    /\ mcpOut' = [op |-> "load_mcp_tools", exc |-> "none", ret |-> <<>>,
                  created |-> TRUE, env |-> "tools_error"]
    /\ mcpLoad' = NotLoading
    /\ UNCHANGED <<mcpConfig, mcp_client, all_tools>>
    /\ UNCHANGED notMcpLoadVars

\* the configuration is changed between two loads
Reconfigure(cfg) ==
    /\ mcpLoad.pc = "idle"
    /\ Configure(cfg)

\* get_tools between two loads
GetLoadedTools ==
    /\ mcpLoad.pc = "idle"
    /\ GetTools

McpLoadNext ==
    \/ \E mode \in ServerModes : BeginLoad(mode)
    \/ FetchReturns
    \/ FetchFails
    \/ \E cfg \in McpConfigs : Reconfigure(cfg)
    \/ GetLoadedTools

\* C11 (as claimed): a load that waits for the tool list of the enabled
\* servers eventually returns, also when a server never answers.
C11_LoadTerminates == (mcpLoad.pc = "waiting") ~> (mcpLoad.pc = "idle")

----------------------------------------------------------------------------
(* The supervisor and its sub-agents (src/agent/supervisor.py,               *)
(* src/agent/sub_agents.py, src/agent/agent_config.py).                     *)

\* Two of get_default_sub_agents, with the model and the prompt each names.
AgentNames == {"math_agent", "chart_agent"}

model_name(a) == IF a = "math_agent" THEN "math" ELSE "default"

prompt_id(a) == IF a = "math_agent" THEN "math" ELSE "chart"

ModelNames == {"default", "math"}

PromptIds == {"supervisor", "math", "chart"}

\* The configurations: the models and prompts that are there, the enabled
\* sub-agents, and SUPERVISOR_MODEL.
AgentConfigs ==
    [models : SUBSET ModelNames, prompts : SUBSET PromptIds,
     enabled : SUBSET AgentNames, supervisor_model : {"default", "gpt"}]

\* create_sub_agent: whether it returns an agent (TRUE) or None (FALSE);
\* fails holds the sub-agents for which ChatOpenAI or create_react_agent
\* raises
create_sub_agent(cfg, a, fails) ==
    IF model_name(a) \notin cfg.models THEN FALSE
    ELSE IF prompt_id(a) \notin cfg.prompts THEN FALSE
    ELSE IF a \in fails THEN FALSE
    ELSE TRUE

create_all_agents_reset(cfg, held, fails) ==
    {a \in AgentNames : a \in cfg.enabled /\ create_sub_agent(cfg, a, fails)}

\* create_all_agents: self.agents afterwards, which it returns
create_all_agents(cfg, held, fails) ==
    held \cup {a \in AgentNames : a \in cfg.enabled /\ create_sub_agent(cfg, a, fails)}

HandoffTool(name) == [tool_name |-> "transfer_to_" \o name, goto |-> name]

create_handoff_tools_enabled(cfg, held) ==
    {HandoffTool(a) : a \in cfg.enabled}

\* create_handoff_tools: one tool for each of get_all_agent_names()
create_handoff_tools(cfg, held) ==
    {HandoffTool(a) : a \in held}

\* the tool message a handoff tool appends
HandoffMessage(tool, id) ==
    [role |-> "tool", tag |-> "handoff", val |-> tool.goto, calls |-> <<>>,
     name |-> tool.tool_name, tool_call_id |-> id]

\* handoff_tool: the Command it returns
handoff_tool(tool, msgs, id) ==
    [goto |-> tool.goto, messages |-> msgs \o <<HandoffMessage(tool, id)>>,
     graph |-> "PARENT"]

\* create_supervisor_agent: the exception it raises and whether it returns
\* an agent; createOk says whether ChatOpenAI and create_react_agent work
create_supervisor_agent(cfg, createOk) ==
    IF cfg.supervisor_model \notin cfg.models THEN [exc |-> "none", agent |-> FALSE]
    ELSE IF "supervisor" \notin cfg.prompts THEN [exc |-> "none", agent |-> FALSE]
    ELSE IF ~createOk THEN [exc |-> "none", agent |-> FALSE]
    ELSE [exc |-> "none", agent |-> TRUE]

NoAgentCall == [op |-> "none"]

AgentIdle ==
    /\ agentConfig = [models |-> {}, prompts |-> {}, enabled |-> {},
                      supervisor_model |-> "default"]
    /\ agents = {}
    /\ handoff_tools = {}
    /\ agentOut = NoAgentCall

\* SubAgentFactory.__init__, with any configuration
AgentInit ==
    /\ agentConfig \in AgentConfigs
    /\ agents = {}
    /\ handoff_tools = {}
    /\ agentOut = NoAgentCall

CreateAllAgents(fails) ==
    /\ agents' = create_all_agents(agentConfig, agents, fails)
    /\ agentOut' = [op |-> "create_all_agents", exc |-> "none",
                    ret |-> create_all_agents(agentConfig, agents, fails),
                    held |-> agents, fails |-> fails]
    /\ UNCHANGED <<agentConfig, handoff_tools>>
    /\ UNCHANGED notAgentVars

\* create_handoff_tools(agent_factory); after says whether it directly
\* follows create_all_agents
CreateHandoffTools ==
    /\ handoff_tools' = create_handoff_tools(agentConfig, agents)
    /\ agentOut' = [op |-> "create_handoff_tools",
                    after |-> agentOut.op = "create_all_agents"]
    /\ UNCHANGED <<agentConfig, agents>>
    /\ UNCHANGED notAgentVars

\* the supervisor calls one of its handoff tools
InvokeHandoff(tool, msgs, id) ==
    /\ tool \in handoff_tools
    /\ agentOut' = [op |-> "handoff", tool |-> tool, before |-> msgs, id |-> id,
                    command |-> handoff_tool(tool, msgs, id)]
    /\ UNCHANGED <<agentConfig, agents, handoff_tools>>
    /\ UNCHANGED notAgentVars

CreateSupervisor(createOk) ==
    /\ agentOut' = [op |-> "create_supervisor_agent", createOk |-> createOk,
                    result |-> create_supervisor_agent(agentConfig, createOk)]
    /\ UNCHANGED <<agentConfig, agents, handoff_tools>>
    /\ UNCHANGED notAgentVars

\* a sub-agent is enabled or disabled in the configuration
ToggleAgent(a) ==
    /\ agentOut.op # "none"
    /\ agentConfig' =
          [agentConfig EXCEPT !.enabled =
              IF a \in @ THEN @ \ {a} ELSE @ \cup {a}]
    /\ agentOut' = NoAgentCall
    /\ UNCHANGED <<agents, handoff_tools>>
    /\ UNCHANGED notAgentVars

AgentNext ==
    \/ \E fails \in SUBSET AgentNames : CreateAllAgents(fails)
    \/ CreateHandoffTools
    \/ \E a \in AgentNames, msgs \in {<<>>, <<Question>>},
          id \in {"call_1", "call_2"} : InvokeHandoff(HandoffTool(a), msgs, id)
    \/ \E createOk \in BOOLEAN : CreateSupervisor(createOk)
    \/ \E a \in AgentNames : ToggleAgent(a)

\* The supervisor can be constructed: its model and its prompt resolve and
\* the construction works.
SupervisorConstructible ==
    /\ agentConfig.supervisor_model \in agentConfig.models
    /\ "supervisor" \in agentConfig.prompts
    /\ agentOut.createOk

\* C12 (as claimed): when the supervisor cannot be constructed,
\* create_supervisor_agent raises; it never returns without an agent.
C12_SupervisorFailureRaises ==
    agentOut.op = "create_supervisor_agent" =>
        /\ ~SupervisorConstructible => agentOut.result.exc # "none"
        /\ agentOut.result.exc = "none" => agentOut.result.agent

\* The sub-agents create_sub_agent can construct under the configuration:
\* enabled, model and prompt resolving, construction working.
Constructible(fails) ==
    {a \in AgentNames :
        /\ a \in agentConfig.enabled
        /\ model_name(a) \in agentConfig.models
        /\ prompt_id(a) \in agentConfig.prompts
        /\ a \notin fails}

\* C13 (as claimed): create_all_agents returns an agent for exactly the
\* sub-agents that are enabled, resolve and whose creation succeeds.
C13_ReturnsExactlyConstructible ==
    agentOut.op = "create_all_agents" =>
        /\ agentOut.exc = "none"
        /\ agentOut.ret = Constructible(agentOut.fails)

\* C13 (amended): create_all_agents never raises and returns the agents the
\* factory already held together with an agent for exactly the sub-agents
\* that are enabled, resolve and whose creation succeeds; on a factory that
\* holds no agent it returns exactly the latter.  A sub-agent that is
\* disabled or does not resolve is not constructed and prevents no other.
C13_ReturnsHeldAndConstructible ==
    agentOut.op = "create_all_agents" =>
        /\ agentOut.exc = "none"
        /\ agentOut.ret = agentOut.held \cup Constructible(agentOut.fails)
        /\ agentOut.held = {} => agentOut.ret = Constructible(agentOut.fails)
        /\ (agentOut.ret \ agentOut.held) \subseteq agentConfig.enabled
        /\ agents = agentOut.ret

\* C13 witness: a call on a factory holding an agent for a sub-agent that
\* has been disabled since returns that agent and one constructed now.
C13_Witness ==
    /\ agentOut.op = "create_all_agents"
    /\ \E a \in agentOut.held : a \notin agentConfig.enabled
    /\ Constructible(agentOut.fails) # {}
    /\ agentOut.ret # Constructible(agentOut.fails)

\* C15 (as claimed): the handoff tools created after create_all_agents are
\* one transfer_to_<name> for each enabled sub-agent <name>, and a handoff
\* goes to <name> and appends one marker carrying the tool_call_id.
C15_OneToolPerEnabledAgent ==
    /\ (agentOut.op = "create_handoff_tools" /\ agentOut.after) =>
          /\ \A a \in AgentNames :
                a \in agentConfig.enabled <=> HandoffTool(a) \in handoff_tools
          /\ Cardinality(handoff_tools) = Cardinality(agentConfig.enabled)
    /\ agentOut.op = "handoff" =>
          agentOut.tool.tool_name = "transfer_to_" \o agentOut.command.goto

\* C15 (amended): the handoff tools are one transfer_to_<name> for each
\* sub-agent <name> the factory holds an agent for (enabled sub-agents that
\* could not be constructed have none); invoking transfer_to_<name> returns
\* a command to the node <name> of the parent graph whose messages are the
\* existing ones followed by one tool message carrying the tool_call_id.
C15_OneToolPerHeldAgent ==
    /\ agentOut.op = "create_handoff_tools" =>
          /\ \A a \in AgentNames : a \in agents <=> HandoffTool(a) \in handoff_tools
          /\ Cardinality(handoff_tools) = Cardinality(agents)
    /\ agentOut.op = "handoff" =>
          LET c == agentOut.command
          IN  /\ agentOut.tool.tool_name = "transfer_to_" \o c.goto
              /\ c.goto \in AgentNames
              /\ c.graph = "PARENT"
              /\ Len(c.messages) = Len(agentOut.before) + 1
              /\ SubSeq(c.messages, 1, Len(agentOut.before)) = agentOut.before
              /\ c.messages[Len(c.messages)].role = "tool"
              /\ c.messages[Len(c.messages)].tool_call_id = agentOut.id
              /\ c.messages[Len(c.messages)].name = agentOut.tool.tool_name

\* C15 witness: with two tools created, transfer_to_chart_agent is invoked
\* on a history of one message.
C15_Witness ==
    /\ agentOut.op = "handoff"
    /\ Cardinality(handoff_tools) = 2
    /\ agentOut.tool.goto = "chart_agent"
    /\ agentOut.before # <<>>
    /\ agentOut.command.goto = "chart_agent"

----------------------------------------------------------------------------
(* AsyncChartGenerator._extract_chart_url (workflow_sql/                     *)
(* async_chart_generator.py).  A text is a sequence of pieces:              *)
(*   "Q"  the prefix https://quickchart.io/chart?c=                         *)
(*   "H"  the prefix of another URL, https://example.com/                   *)
(*   "a"  a character of [A-Za-z0-9%_=-]                                    *)
(*   "."  a URL character outside that class which rstrip('.,;!?)') strips  *)
(*   "&"  a URL character outside that class which is not stripped          *)
(*   "{"  a character no URL pattern accepts                                *)
(*   " "  white space                                                       *)

MaxTextLen == 4

Pieces == {"Q", "H", "a", ".", "&", "{", " "}

Texts == UNION {[1..n -> Pieces] : n \in 0..MaxTextLen}

\* [^\s<>"{}|\\^`\[\]]
UrlPieces == {"Q", "H", "a", ".", "&"}

\* the last index of the longest stretch of text from i on with pieces of S,
\* i - 1 if there is none
StretchEnd(text, i, S) ==
    CHOOSE j \in (i - 1)..Len(text) :
        /\ \A k \in i..j : text[k] \in S
        /\ j < Len(text) => text[j + 1] \notin S

\* [A-Za-z0-9%_=-]
PayloadChars == {"a"}

Least(S) == CHOOSE i \in S : \A j \in S : i <= j

\* re.findall(pattern, content)[0] for the quickchart pattern
\* https://quickchart\.io/chart\?c=[A-Za-z0-9%_=-]+ ; <<>> without a match
first_quickchart_match(text) ==
    LET starts == {i \in 1..Len(text) :
                      text[i] = "Q" /\ i < Len(text) /\ text[i + 1] = "a"}
    IN  IF starts = {} THEN <<>>
        ELSE SubSeq(text, Least(starts),
                    StretchEnd(text, Least(starts) + 1, PayloadChars))

\* ... for the patterns asking for "chart" somewhere in the URL: the match
\* starts at the first URL prefix from which the word is reached
first_chart_match(text) ==
    LET starts == {i \in 1..Len(text) :
                      /\ text[i] \in {"Q", "H"}
                      /\ \E k \in i..Len(text) :
                            /\ text[k] = "Q"
                            /\ \A l \in i..k : text[l] \in UrlPieces}
    IN  IF starts = {} THEN <<>>
        ELSE SubSeq(text, Least(starts), StretchEnd(text, Least(starts), UrlPieces))

\* ... for the general pattern https?://[^\s<>"{}|\\^`\[\]]+
first_url_match(text) ==
    LET starts == {i \in 1..Len(text) : text[i] \in {"Q", "H"}}
    IN  IF starts = {} THEN <<>>
        ELSE SubSeq(text, Least(starts), StretchEnd(text, Least(starts), UrlPieces))

\* url.rstrip('.,;!?)')
RECURSIVE rstrip(_)
rstrip(u) ==
    IF u # <<>> /\ u[Len(u)] = "." THEN rstrip(SubSeq(u, 1, Len(u) - 1)) ELSE u

\* _extract_chart_url: the patterns in order, the first match of the first
\* pattern that matches, stripped
extract_chart_url(text) ==
    IF first_quickchart_match(text) # <<>>
    THEN Some(rstrip(first_quickchart_match(text)))
    ELSE IF first_chart_match(text) # <<>>
    THEN Some(rstrip(first_chart_match(text)))
    ELSE IF first_url_match(text) # <<>>
    THEN Some(rstrip(first_url_match(text)))
    ELSE None

NotExtracted == [called |-> FALSE, ret |-> None]

UrlIdle ==
    /\ urlIn = <<>>
    /\ urlOut = NotExtracted

UrlInit ==
    /\ urlIn \in Texts
    /\ urlOut = NotExtracted

\* generate_chart looks for the chart URL in a message of the chart agent
ExtractChartUrl ==
    /\ ~urlOut.called
    /\ urlOut' = [called |-> TRUE, ret |-> extract_chart_url(urlIn)]
    /\ UNCHANGED urlIn
    /\ UNCHANGED notUrlVars

\* no URL in this message: generate_chart goes on to the next one
NextContent ==
    /\ urlOut.called
    /\ urlOut.ret = None
    /\ urlIn' \in Texts
    /\ urlOut' = NotExtracted
    /\ UNCHANGED notUrlVars

UrlNext == ExtractChartUrl \/ NextContent

UrlPayload == {"a", ".", "&"}

PayloadEnd(i) == StretchEnd(urlIn, i + 1, UrlPayload)

\* The text holds exactly one quickchart URL, at i: its payload is not empty,
\* does not end in a punctuation mark, and white space or the end of the text
\* follows it.
TheQuickchartUrl(i) ==
    /\ i \in 1..Len(urlIn)
    /\ urlIn[i] = "Q"
    /\ \A j \in 1..Len(urlIn) : urlIn[j] = "Q" => j = i
    /\ PayloadEnd(i) > i
    /\ urlIn[PayloadEnd(i)] # "."
    /\ PayloadEnd(i) < Len(urlIn) => urlIn[PayloadEnd(i) + 1] = " "

\* C17 (as claimed): from a text holding a URL https://quickchart.io/chart?c=
\* <payload>, the extraction returns that URL whole, wherever it stands and
\* whatever other URLs there are; from a text without URL it returns None.
C17_ExtractsWholeUrl ==
    urlOut.called =>
        /\ \A i \in 1..Len(urlIn) :
              TheQuickchartUrl(i)
                 => urlOut.ret = Some(SubSeq(urlIn, i, PayloadEnd(i)))
        /\ (\A j \in 1..Len(urlIn) : urlIn[j] \notin {"Q", "H"})
              => urlOut.ret = None


----------------------------------------------------------------------------
(* SQLDatabaseManager called from several threads (workflow_sql/database.py):*)
(* the manager holds no lock, so a thread can be preempted between the test  *)
(* "self._db is None" and the connection, and between the assignment of      *)
(* self._db and that of self._dialect.                                       *)

DbOps ==
    {"db", "get_dialect", "get_table_names", "get_table_schema", "execute_query"}

NoDbConcCall == [pc |-> "idle", op |-> "none"]

DbConcIdle ==
    /\ dbCall = [t \in Threads |-> NoDbConcCall]
    /\ dbOpened = 0

DbConcInit ==
    /\ dbm = NotConnected
    /\ dbUp \in BOOLEAN
    /\ dbBackend \in {{"sqlite"}, {"postgres", "postgresql"}}
    /\ dbOut = NoDbCall
    /\ DbConcIdle

\* a thread calls db, get_dialect, get_table_names, get_table_schema or
\* execute_query
DbCallBegin(t, o) ==
    /\ dbCall[t].pc = "idle"
    /\ dbCall' = [dbCall EXCEPT ![t] = [pc |-> "test", op |-> o]]
    /\ UNCHANGED <<dbVars, dbOpened>>
    /\ UNCHANGED notDbConcVars

\* "if self._db is None:" in db, "if self._dialect is None:" in get_dialect
DbTest(t) ==
    /\ dbCall[t].pc = "test"
    /\ LET unset == IF dbCall[t].op = "get_dialect" THEN dbm.dialect = "None"
                    ELSE ~dbm.db
       IN  dbCall' = [dbCall EXCEPT ![t].pc = IF unset THEN "connect" ELSE "use"]
    /\ UNCHANGED <<dbVars, dbOpened>>
    /\ UNCHANGED notDbConcVars

\* _connect: self._db = SQLDatabase.from_uri(...), or DatabaseConnectionError
DbFromUri(t) ==
    /\ dbCall[t].pc = "connect"
    /\ IF dbUp
       THEN /\ dbm' = [dbm EXCEPT !.db = TRUE]
            /\ dbOpened' = dbOpened + 1
            /\ dbCall' = [dbCall EXCEPT ![t].pc = "detect"]
       ELSE /\ dbCall' = [dbCall EXCEPT ![t] = NoDbConcCall]
            /\ UNCHANGED <<dbm, dbOpened>>
    /\ UNCHANGED <<dbUp, dbBackend, dbOut>>
    /\ UNCHANGED notDbConcVars

\* _connect: self._dialect = self._detect_dialect()
DbDetect(t) ==
    /\ dbCall[t].pc = "detect"
    /\ dbm' = [dbm EXCEPT !.dialect = detect_dialect(dbBackend)]
    /\ dbCall' = [dbCall EXCEPT ![t].pc = "use"]
    /\ UNCHANGED <<dbUp, dbBackend, dbOut, dbOpened>>
    /\ UNCHANGED notDbConcVars

\* the rest of the call, on the connection, and its return
DbCallEnd(t) ==
    /\ dbCall[t].pc = "use"
    /\ dbCall' = [dbCall EXCEPT ![t] = NoDbConcCall]
    /\ UNCHANGED <<dbVars, dbOpened>>
    /\ UNCHANGED notDbConcVars

\* the database server goes down or comes back
DbConcAvailability ==
    /\ dbUp' = ~dbUp
    /\ UNCHANGED <<dbm, dbBackend, dbOut, dbCall, dbOpened>>
    /\ UNCHANGED notDbConcVars

DbConcNext ==
    \/ \E t \in Threads, o \in DbOps : DbCallBegin(t, o)
    \/ \E t \in Threads : DbTest(t)
    \/ \E t \in Threads : DbFromUri(t)
    \/ \E t \in Threads : DbDetect(t)
    \/ \E t \in Threads : DbCallEnd(t)
    \/ DbConcAvailability

\* C21 (as claimed): whatever the callers of db, get_dialect,
\* get_table_names, get_table_schema and execute_query and their
\* interleaving, no connection is opened before an operation needs one, and
\* after a successful connection no further one is opened: a manager opens
\* at most one connection.
C21_AtMostOneConnection ==
    /\ dbOpened <= 1
    /\ dbOpened = 0 <=> ~dbm.db


----------------------------------------------------------------------------
(* The cached SQL tools (workflow_sql/react_tools.py) over the global cache  *)
(* manager, after initialize_cache and initialize_sql_tools                  *)
(* (react_graph.py).  A fetch from the database returns content, returns     *)
(* empty content, or raises.                                                 *)

FetchOutcomes == {"content", "empty", "raise"}

\* what a fetch can yield: some content, empty content, or an exception
Fetches ==
    {[outcome |-> "content", data |-> d] : d \in Values}
    \cup {[outcome |-> o, data |-> ""] : o \in {"empty", "raise"}}

\* a tool that stores what the fetch returned, content or not
cached_tool_stores_empty(c, k, outcome, d, t) ==
    LET g == GetBody(c, k, None, t)
    IN  IF g.ret # None
        THEN [cache |-> g.cache, contacted |-> FALSE, ret |-> g.ret]
        ELSE IF outcome # "raise"
        THEN [cache |-> SetBody(g.cache, k, d, t), contacted |-> TRUE,
              ret |-> Some(d)]
        ELSE [cache |-> g.cache, contacted |-> TRUE, ret |-> None]

\* get_database_tables, get_table_schema("") and get_database_info: look the
\* key up, on a miss fetch, and store what was fetched if there is content
cached_tool(c, k, outcome, d, t) ==
    LET g == GetBody(c, k, None, t)
    IN  IF g.ret # None
        THEN [cache |-> g.cache, contacted |-> FALSE, ret |-> g.ret]
        ELSE IF outcome = "content"
        THEN [cache |-> SetBody(g.cache, k, d, t), contacted |-> TRUE,
              ret |-> Some(d)]
        ELSE [cache |-> g.cache, contacted |-> TRUE, ret |-> None]

NoToolCall ==
    [tool |-> "none", key |-> "none", outcome |-> "none", contacted |-> FALSE,
     ret |-> None, before |-> <<>>, at |-> 0, afterClear |-> FALSE]

ToolIdle ==
    /\ toolOut = NoToolCall
    /\ sinceClear = {}

ToolInit == ToolIdle

toolFrame == <<lock, pc, op, ret, obs, snap, lastSet>>

\* a tool is called: what it leaves behind
ToolReturn(name, k, outcome, d) ==
    LET r == cached_tool(cache, k, outcome, d, now)
    IN  /\ \A i \in 1..Len(r.cache) : r.cache[i].access_count <= MaxAccess
        \* without a fetch there is one outcome, not one per possible fetch
        /\ r.contacted \/ outcome = "raise"
        /\ cache' = r.cache
        /\ toolOut' = [tool |-> name, key |-> k,
                       outcome |-> IF r.contacted THEN outcome ELSE "none",
                       contacted |-> r.contacted, ret |-> r.ret,
                       before |-> cache, at |-> now,
                       afterClear |-> k \in sinceClear]
        /\ sinceClear' = sinceClear \ {k}
        /\ UNCHANGED now
        /\ UNCHANGED toolFrame

ToolGetDatabaseTables(f) ==
    /\ ToolReturn("get_database_tables", "tables_list", f.outcome, f.data)
    /\ UNCHANGED notToolVars

ToolGetTableSchema(f) ==
    /\ ToolReturn("get_table_schema", "schema_all", f.outcome, f.data)
    /\ UNCHANGED notToolVars

\* get_database_info stores the text it builds whenever nothing raised
ToolGetDatabaseInfo(f) ==
    /\ f.outcome # "empty"
    /\ ToolReturn("get_database_info", "database_info", f.outcome, f.data)
    /\ UNCHANGED notToolVars

\* clear_cache
ToolClearCache ==
    /\ cache' = <<>>
    /\ toolOut' = [NoToolCall EXCEPT !.tool = "clear_cache"]
    /\ sinceClear' = Keys
    /\ UNCHANGED now
    /\ UNCHANGED toolFrame
    /\ UNCHANGED notToolVars

\* time passes between two tool calls
ToolTick ==
    /\ now < MaxTime
    /\ now' = now + 1
    /\ UNCHANGED <<cache, toolOut, sinceClear>>
    /\ UNCHANGED toolFrame
    /\ UNCHANGED notToolVars

ToolNext ==
    \/ \E f \in Fetches : ToolGetDatabaseTables(f)
    \/ \E f \in Fetches : ToolGetTableSchema(f)
    \/ \E f \in Fetches : ToolGetDatabaseInfo(f)
    \/ ToolClearCache
    \/ ToolTick

ToolCalled == toolOut.tool \notin {"none", "clear_cache"}

\* The tool found an entry of its key no older than default_ttl.
FoundFresh ==
    /\ HasKey(toolOut.before, toolOut.key)
    /\ toolOut.at - Lookup(toolOut.before, toolOut.key).timestamp <= DefaultTtl

\* C22: an entry of a key is created only by a successful fetch of that key;
\* a fetch that fails or returns nothing creates none; while an entry that
\* has not expired exists the tool answers from it without contacting the
\* database; after clear_cache the next call of each tool contacts the
\* database.
C22_CachedToolLifecycle ==
    ToolCalled =>
        /\ KeysOf(cache) \ KeysOf(toolOut.before) \subseteq {toolOut.key}
        /\ (~FoundFresh /\ HasKey(cache, toolOut.key))
              => toolOut.contacted /\ toolOut.outcome = "content"
        /\ (toolOut.contacted /\ toolOut.outcome # "content")
              => ~HasKey(cache, toolOut.key)
        /\ FoundFresh =>
              /\ ~toolOut.contacted
              /\ toolOut.ret = Some(Lookup(toolOut.before, toolOut.key).data)
        /\ toolOut.afterClear => toolOut.contacted

\* C22 witness: a tool answered from an entry stored by an earlier fetch, the
\* cache being full.
C22_Witness ==
    /\ ToolCalled
    /\ FoundFresh
    /\ ~toolOut.contacted
    /\ toolOut.at > Lookup(toolOut.before, toolOut.key).timestamp
    /\ Len(cache) = MaxEntries


----------------------------------------------------------------------------
(* MCPClientManager (workflow_sql/mcp_client.py).  get_tools reads the       *)
(* clock and tests its cache, and on a miss awaits the server: time passes   *)
(* and clear_cache or close_all can run before the answer arrives.           *)

\* _cache_timeout: 300 s in the source, scaled to the model's clock
CacheTimeout == 2

McServers == {"mcp-server-chart", "mcp-server-sql"}

ToolLists == {"tools_a", "tools_b"}

NoneFor(S) == [s \in S |-> None]

\* MCPClientManager.__init__
NewClientManager ==
    [clients |-> {}, tools_cache |-> NoneFor(McServers),
     cache_timestamps |-> NoneFor(McServers)]

cache_valid_inclusive(m, s, t) ==
    /\ m.tools_cache[s] # None
    /\ m.cache_timestamps[s] # None
    /\ t - m.cache_timestamps[s][1] <= CacheTimeout

\* the test at the head of get_tools
cache_valid(m, s, t) ==
    /\ m.tools_cache[s] # None
    /\ m.cache_timestamps[s] # None
    /\ t - m.cache_timestamps[s][1] < CacheTimeout

\* get_client: the manager afterwards
get_client(m, s) == [m EXCEPT !.clients = @ \cup {s}]

\* get_tools after a successful fetch: the cache and its timestamp, which is
\* the clock reading taken when the call began
store_tools(m, s, tools, current_time) ==
    [m EXCEPT !.tools_cache[s] = Some(tools),
              !.cache_timestamps[s] = Some(current_time)]

\* before: the manager as the call found it, when it began or, after a
\* fetch, when the server's answer arrived
NoMcCall ==
    [pc |-> "idle", server |-> "none", current_time |-> 0, contacted |-> 0,
     ret |-> None, failed |-> FALSE, before |-> NewClientManager,
     sinceSuccess |-> None, sinceBegin |-> None]

\* what is known of the last successful fetch of each server, as long as no
\* clear_cache or close_all has followed it: when the call began, when the
\* answer arrived; and the client objects created since the last close_all
NothingSeen ==
    [began |-> NoneFor(McServers), succeeded |-> NoneFor(McServers),
     created |-> [s \in McServers |-> 0]]

McClientIdle ==
    /\ mcc = NewClientManager
    /\ mccCall = NoMcCall
    /\ mccNow = 0
    /\ mccSeen = NothingSeen

McClientInit == McClientIdle

Age(x, t) == IF x = None THEN None ELSE Some(t - x[1])

\* get_tools(s) up to its first await: the answer from the cache, or the
\* client and the request to the server
McGetToolsBegin(s) ==
    /\ mccCall.pc \in {"idle", "done"}
    /\ LET call == [NoMcCall EXCEPT !.server = s, !.current_time = mccNow,
                                    !.before = mcc,
                                    !.sinceSuccess = Age(mccSeen.succeeded[s], mccNow),
                                    !.sinceBegin = Age(mccSeen.began[s], mccNow)]
       IN  IF cache_valid(mcc, s, mccNow)
           THEN /\ mccCall' = [call EXCEPT !.pc = "done",
                                           !.ret = mcc.tools_cache[s]]
                /\ UNCHANGED <<mcc, mccSeen>>
           ELSE /\ mccCall' = [call EXCEPT !.pc = "fetching"]
                /\ mcc' = get_client(mcc, s)
                /\ mccSeen' = [mccSeen EXCEPT !.created[s] =
                                  IF s \in mcc.clients THEN @ ELSE @ + 1]
    /\ UNCHANGED mccNow
    /\ UNCHANGED notMcClientVars

\* client.get_tools() answers
McFetchReturns(tools) ==
    /\ mccCall.pc = "fetching"
    /\ mcc' = store_tools(mcc, mccCall.server, tools, mccCall.current_time)
    /\ mccCall' = [mccCall EXCEPT !.pc = "done", !.contacted = @ + 1,
                                  !.ret = Some(tools), !.before = mcc]
    /\ mccSeen' = [mccSeen EXCEPT
                      !.began[mccCall.server] = Some(mccCall.current_time),
                      !.succeeded[mccCall.server] = Some(mccNow)]
    /\ UNCHANGED mccNow
    /\ UNCHANGED notMcClientVars

\* client.get_tools() raises, and so does get_tools
McFetchRaises ==
    /\ mccCall.pc = "fetching"
    /\ mccCall' = [mccCall EXCEPT !.pc = "done", !.contacted = @ + 1,
                                  !.failed = TRUE, !.before = mcc]
    /\ UNCHANGED <<mcc, mccSeen, mccNow>>
    /\ UNCHANGED notMcClientVars

\* clear_cache
McClearCache ==
    /\ mcc' = [mcc EXCEPT !.tools_cache = NoneFor(McServers)]
    /\ mccSeen' = [mccSeen EXCEPT !.began = NoneFor(McServers),
                                  !.succeeded = NoneFor(McServers)]
    /\ mccCall' = IF mccCall.pc = "done" THEN NoMcCall ELSE mccCall
    /\ UNCHANGED mccNow
    /\ UNCHANGED notMcClientVars

\* close_all
McCloseAll ==
    /\ mcc' = [mcc EXCEPT !.clients = {}, !.tools_cache = NoneFor(McServers)]
    /\ mccSeen' = NothingSeen
    /\ mccCall' = IF mccCall.pc = "done" THEN NoMcCall ELSE mccCall
    /\ UNCHANGED mccNow
    /\ UNCHANGED notMcClientVars

\* time passes, also while the server is awaited
McTick ==
    /\ mccNow < MaxTime
    /\ mccNow' = mccNow + 1
    /\ mccCall' = IF mccCall.pc = "done" THEN NoMcCall ELSE mccCall
    /\ UNCHANGED <<mcc, mccSeen>>
    /\ UNCHANGED notMcClientVars

McClientNext ==
    \/ \E s \in McServers : McGetToolsBegin(s)
    \/ \E tools \in ToolLists : McFetchReturns(tools)
    \/ McFetchRaises
    \/ McClearCache
    \/ McCloseAll
    \/ McTick

McReturned == mccCall.pc = "done"

\* What a get_tools call that has returned is held to, given whether the
\* cache counted as fresh when the call began.
GetToolsContract(fresh) ==
    /\ fresh =>
          /\ mccCall.contacted = 0
          /\ mccCall.ret = mccCall.before.tools_cache[mccCall.server]
          /\ mcc = mccCall.before
    /\ ~fresh =>
          /\ mccCall.contacted = 1
          /\ ~mccCall.failed =>
                /\ mcc.tools_cache[mccCall.server] = mccCall.ret
                /\ mcc.cache_timestamps[mccCall.server]
                      = Some(mccCall.current_time)
          /\ mccCall.failed =>
                /\ mcc.tools_cache[mccCall.server]
                      = mccCall.before.tools_cache[mccCall.server]
                /\ mcc.cache_timestamps[mccCall.server]
                      = mccCall.before.cache_timestamps[mccCall.server]
    /\ \A s \in McServers : mccSeen.created[s] <= 1

----------------------------------------------------------------------------
(* AsyncChartGenerator._validate_chart_url and the end of generate_chart     *)
(* (workflow_sql/async_chart_generator.py).  A URL is described by what the  *)
(* validation looks at: its scheme, its length, and the substrings           *)
(* 'quickchart.io', 'chart?c=', '%22type%22' and '%22data%22'.               *)

Schemes == {"http://", "https://", "ftp://"}

\* len(url) on either side of the limit of 20
UrlLengths == {19, 20}

\* "http://quickchart.io" has 20 characters
ChartUrls ==
    {u \in [scheme : Schemes, len : UrlLengths, quickchart : BOOLEAN,
            chart_c : BOOLEAN, type : BOOLEAN, data : BOOLEAN] :
        u.quickchart => u.len >= 20}

\* _validate_chart_url: the test of '%22type%22' and '%22data%22' stands in
\* the block of "if 'chart?c=' not in url:", after its return
validate_chart_url(u) ==
    IF u.scheme \notin {"http://", "https://"} THEN FALSE
    ELSE IF u.len < 20 THEN FALSE
    ELSE IF u.quickchart /\ ~u.chart_c THEN FALSE
    ELSE TRUE

\* generate_chart, from "if chart_url:" on: what the user gets
chart_result(url) ==
    IF url = None THEN "chart_failed_no_url"
    ELSE IF validate_chart_url(url[1]) THEN "chart_done"
    ELSE "chart_failed_invalid_url"

NotValidated == [called |-> FALSE, valid |-> FALSE, result |-> "none"]

ValidateIdle ==
    /\ chartUrl = None
    /\ chartUrlOut = NotValidated

ValidateInit ==
    /\ chartUrl \in {None} \cup {Some(u) : u \in ChartUrls}
    /\ chartUrlOut = NotValidated

\* generate_chart has a URL, or none, and builds its result
BuildChartResult ==
    /\ ~chartUrlOut.called
    /\ chartUrlOut' =
          [called |-> TRUE,
           valid |-> chartUrl # None /\ validate_chart_url(chartUrl[1]),
           result |-> chart_result(chartUrl)]
    /\ UNCHANGED chartUrl
    /\ UNCHANGED notValidateVars

\* the next chart generation, with the URL of its own response
NextChartUrl ==
    /\ chartUrlOut.called
    /\ chartUrl' \in {None} \cup {Some(u) : u \in ChartUrls}
    /\ chartUrlOut' = NotValidated
    /\ UNCHANGED notValidateVars

ValidateNext == BuildChartResult \/ NextChartUrl

\* C24 (as claimed): a URL is accepted only if it starts with http:// or
\* https://, has at least 20 characters and, when it is a quickchart.io URL,
\* contains 'chart?c=', '%22type%22' and '%22data%22'; a URL that validation
\* rejects is not returned as a chart link.
C24_ValidatesQuickchartParameters ==
    (chartUrlOut.called /\ chartUrl # None) =>
        /\ chartUrlOut.valid =>
              /\ chartUrl[1].scheme \in {"http://", "https://"}
              /\ chartUrl[1].len >= 20
              /\ chartUrl[1].quickchart =>
                    /\ chartUrl[1].chart_c
                    /\ chartUrl[1].type
                    /\ chartUrl[1].data
        /\ chartUrlOut.result = "chart_done" => chartUrlOut.valid


----------------------------------------------------------------------------
(* A conversation: the pipeline run again on the history it left             *)
(* (workflow_sql/nodes.py).  The messages of a run are appended to those of  *)
(* the runs before it; answer_generation reads the query and the result out  *)
(* of the whole history.  The tools of list_tables and get_relative_schema   *)
(* work and the chart feature is off in the conversations followed here.     *)

\* the questions asked in one conversation
MaxRuns == 2

WorkingTools ==
    [toolFound |-> TRUE, invokeOk |-> TRUE, dbOk |-> TRUE, result |-> "r1"]

\* generate_query with the database and the query tool at hand: the model
\* fails, answers in text, or calls one tool
ConvModelEnvs == {e \in ModelEnvs : e.toolFound /\ e.dbOk /\ Len(e.calls) <= 1}

\* check_query: the query tool fails or returns one of two results
ConvQueryEnvs ==
    {[toolFound |-> TRUE, invokeOk |-> b, dbOk |-> TRUE, result |-> r] :
        b \in BOOLEAN, r \in {"r1", "r2"}}

\* "for tool_call in prev_msg.tool_calls: if name == 'sql_db_query'": the
\* query of the first such call of a message ("" if it has none)
QueryOf(m) ==
    IF ~HasToolCalls(m) THEN ""
    ELSE LET J == {j \in 1..Len(m.calls) : m.calls[j].name = "sql_db_query"}
         IN  IF J = {} THEN ""
             ELSE m.calls[CHOOSE j \in J : \A k \in J : j <= k].query

\* AnswerGenerationNode._extract_query_and_result: the result of the first
\* message announcing an executed query, and the query of the last message
\* calling sql_db_query with a query
extract_query_and_result(msgs) ==
    LET D == {i \in 1..Len(msgs) : msgs[i].tag = "done"}
        Q == {i \in 1..Len(msgs) : QueryOf(msgs[i]) # ""}
    IN  IF D = {} THEN [query |-> "", result |-> ""]
        ELSE [query |-> IF Q = {} THEN ""
                        ELSE QueryOf(msgs[CHOOSE i \in Q : \A j \in Q : j <= i]),
              result |-> msgs[CHOOSE i \in D : \A j \in D : i <= j].val]

\* How many questions the history holds.
Questions(msgs) == Cardinality({i \in 1..Len(msgs) : msgs[i].role = "human"})

ConvIdle ==
    /\ convMessages = <<>>
    /\ convNode = END
    /\ convPrompt = None
    /\ convExecuted = None

\* graph.invoke on the first question of a conversation
ConvInit ==
    /\ convMessages = <<Question>>
    /\ convNode = "list_tables"
    /\ convPrompt = None
    /\ convExecuted = None

\* A node returns r: its messages are appended, the edge to next is taken.
ConvRunNode(r, next) ==
    /\ convMessages' = convMessages \o r.msgs
    /\ convNode' = next
    /\ UNCHANGED notConvVars

ConvListTables ==
    /\ convNode = "list_tables"
    /\ ConvRunNode(execute(list_tables_body(WorkingTools)), "get_relative_schema")
    /\ UNCHANGED <<convPrompt, convExecuted>>

ConvGetRelativeSchema ==
    /\ convNode = "get_relative_schema"
    /\ ConvRunNode(execute(get_relative_schema_body(convMessages, WorkingTools)),
                   "generate_query")
    /\ UNCHANGED <<convPrompt, convExecuted>>

ConvGenerateQuery(env) ==
    /\ convNode = "generate_query"
    /\ LET r == execute(generate_query_body(env))
       IN  ConvRunNode(r, should_continue([hasMessages |-> TRUE,
                                           messages |-> convMessages \o r.msgs]).val)
    /\ UNCHANGED <<convPrompt, convExecuted>>

\* check_query; when the query tool has run, the query it ran and the result
\* it gave are those of this run
ConvCheckQuery(env) ==
    /\ convNode = "check_query"
    /\ LET r == execute(check_query_body(convMessages, env))
       IN  /\ ConvRunNode(r, "answer_generation")
           /\ convExecuted' =
                 IF r.failed \/ Len(r.msgs) # 3 THEN None
                 ELSE Some([query |-> first_tool_call(r.msgs[1]).query,
                            result |-> r.msgs[3].val])
    /\ UNCHANGED convPrompt

\* answer_generation: the query and the result that go into the model prompt
ConvAnswerGeneration(env) ==
    /\ convNode = "answer_generation"
    /\ convPrompt' = Some(extract_query_and_result(convMessages))
    /\ ConvRunNode(execute(answer_generation_body(convMessages, env)),
                   "chart_generation")
    /\ UNCHANGED convExecuted

ConvChartGeneration ==
    /\ convNode = "chart_generation"
    /\ ConvRunNode(execute(chart_generation_body(convMessages, FALSE,
                                                 [chart |-> "ok"])), END)
    /\ UNCHANGED <<convPrompt, convExecuted>>

\* graph.invoke on the next question, with the history of the conversation
ConvNextQuestion ==
    /\ convNode = END
    /\ Questions(convMessages) < MaxRuns
    /\ convMessages' = Append(convMessages, Question)
    /\ convNode' = "list_tables"
    /\ convPrompt' = None
    /\ convExecuted' = None
    /\ UNCHANGED notConvVars

ConvNext ==
    \/ ConvListTables
    \/ ConvGetRelativeSchema
    \/ \E env \in ConvModelEnvs : ConvGenerateQuery(env)
    \/ \E env \in ConvQueryEnvs : ConvCheckQuery(env)
    \/ \E env \in AnswerEnvs : ConvAnswerGeneration(env)
    \/ ConvChartGeneration
    \/ ConvNextQuestion

\* C27 (as claimed): the query and the result that answer_generation puts in
\* the model prompt are those of the check_query execution of the current
\* run, also when the history holds tool calls and messages announcing an
\* executed query from earlier runs of the conversation.
C27_PromptFromCurrentRun ==
    (convPrompt # None /\ convExecuted # None) =>
        convPrompt[1] = convExecuted[1]


----------------------------------------------------------------------------
(* The process-wide cache manager (workflow_sql/cache_manager.py):           *)
(* get_cache_manager, initialize_cache and the helpers built on them, called *)
(* from several threads.  A manager is known by the order of its             *)
(* construction; gcmStore[i] is what manager i holds under "tables_list".    *)

\* how often initialize_cache is called
MaxInits == 1

\* cache_tables_list(v) and get_cached_tables_list()
GcmOps == {[kind |-> "cache", data |-> v] : v \in Values} \cup {[kind |-> "get"]}

NoGcmCall == [kind |-> "none"]

NoGcmResult == [val |-> None, stored |-> None]

GcmIdle ==
    /\ gcm = 0
    /\ gcmStore = <<>>
    /\ gcmPc = [t \in Threads |-> "idle"]
    /\ gcmOp = [t \in Threads |-> NoGcmCall]
    /\ gcmHeld = [t \in Threads |-> 0]
    /\ gcmRet = [t \in Threads |-> NoGcmResult]
    /\ gcmInits = 0
    /\ gcmLast = None

\* the module is imported: _cache_manager = None; initialize_cache may have
\* run at start-up
GcmInit ==
    /\ gcm \in {0, 1}
    /\ gcmStore = IF gcm = 0 THEN <<>> ELSE <<None>>
    /\ gcmPc = [t \in Threads |-> "idle"]
    /\ gcmOp = [t \in Threads |-> NoGcmCall]
    /\ gcmHeld = [t \in Threads |-> 0]
    /\ gcmRet = [t \in Threads |-> NoGcmResult]
    /\ gcmInits = gcm
    /\ gcmLast = None

\* a helper calls get_cache_manager, which reads "_cache_manager is None"
GcmTest(t, o) ==
    /\ gcmPc[t] = "idle"
    /\ gcmOp' = [gcmOp EXCEPT ![t] = o]
    /\ gcmPc' = [gcmPc EXCEPT ![t] = IF gcm = 0 THEN "create" ELSE "return"]
    /\ UNCHANGED <<gcm, gcmStore, gcmHeld, gcmRet, gcmInits, gcmLast>>
    /\ UNCHANGED notGcmVars

\* _cache_manager = SQLCacheManager()
GcmCreate(t) ==
    /\ gcmPc[t] = "create"
    /\ gcmStore' = Append(gcmStore, None)
    /\ gcm' = Len(gcmStore) + 1
    /\ gcmPc' = [gcmPc EXCEPT ![t] = "return"]
    /\ UNCHANGED <<gcmOp, gcmHeld, gcmRet, gcmInits, gcmLast>>
    /\ UNCHANGED notGcmVars

\* return _cache_manager
GcmReturn(t) ==
    /\ gcmPc[t] = "return"
    /\ gcmHeld' = [gcmHeld EXCEPT ![t] = gcm]
    /\ gcmPc' = [gcmPc EXCEPT ![t] = "have"]
    /\ UNCHANGED <<gcm, gcmStore, gcmOp, gcmRet, gcmInits, gcmLast>>
    /\ UNCHANGED notGcmVars

\* cache_tables_list: cache_manager.set(CacheKeys.TABLES_LIST, tables)
GcmCacheTablesList(t) ==
    /\ gcmPc[t] = "have"
    /\ gcmOp[t].kind = "cache"
    /\ gcmStore' = [gcmStore EXCEPT ![gcmHeld[t]] = Some(gcmOp[t].data)]
    /\ gcmLast' = Some(gcmOp[t].data)
    /\ gcmPc' = [gcmPc EXCEPT ![t] = "done"]
    /\ UNCHANGED <<gcm, gcmOp, gcmHeld, gcmRet, gcmInits>>
    /\ UNCHANGED notGcmVars

\* get_cached_tables_list: cache_manager.get(CacheKeys.TABLES_LIST), within
\* the TTL of what is stored
GcmGetCachedTablesList(t) ==
    /\ gcmPc[t] = "have"
    /\ gcmOp[t].kind = "get"
    /\ gcmRet' = [gcmRet EXCEPT ![t] =
                     [val |-> gcmStore[gcmHeld[t]], stored |-> gcmLast]]
    /\ gcmPc' = [gcmPc EXCEPT ![t] = "done"]
    /\ UNCHANGED <<gcm, gcmStore, gcmOp, gcmHeld, gcmInits, gcmLast>>
    /\ UNCHANGED notGcmVars

\* the helper has returned and the caller goes on
GcmDone(t) ==
    /\ gcmPc[t] = "done"
    /\ gcmPc' = [gcmPc EXCEPT ![t] = "idle"]
    /\ gcmOp' = [gcmOp EXCEPT ![t] = NoGcmCall]
    /\ gcmHeld' = [gcmHeld EXCEPT ![t] = 0]
    /\ gcmRet' = [gcmRet EXCEPT ![t] = NoGcmResult]
    /\ UNCHANGED <<gcm, gcmStore, gcmInits, gcmLast>>
    /\ UNCHANGED notGcmVars

\* initialize_cache: _cache_manager = SQLCacheManager(ttl, max_entries)
InitializeCache ==
    /\ gcmInits < MaxInits
    /\ gcmStore' = Append(gcmStore, None)
    /\ gcm' = Len(gcmStore) + 1
    /\ gcmInits' = gcmInits + 1
    /\ gcmLast' = None
    /\ UNCHANGED <<gcmPc, gcmOp, gcmHeld, gcmRet>>
    /\ UNCHANGED notGcmVars

GcmNext ==
    \/ \E t \in Threads : \E o \in GcmOps : GcmTest(t, o)
    \/ \E t \in Threads : GcmCreate(t)
    \/ \E t \in Threads : GcmReturn(t)
    \/ \E t \in Threads : GcmCacheTablesList(t)
    \/ \E t \in Threads : GcmGetCachedTablesList(t)
    \/ \E t \in Threads : GcmDone(t)
    \/ InitializeCache

\* C29 (as claimed): as long as initialize_cache has not been called, the
\* threads that call get_cache_manager, concurrently and before any manager
\* exists included, all obtain the same instance: one manager at most has
\* been constructed, and a get returns the value last stored through any
\* caller.
C29_OneManagerForAllThreads ==
    gcmInits = 0 =>
        /\ Len(gcmStore) <= 1
        /\ \A t, u \in Threads :
              (gcmPc[t] \in {"have", "done"} /\ gcmPc[u] \in {"have", "done"})
                  => gcmHeld[t] = gcmHeld[u]
        /\ \A t \in Threads :
              (gcmPc[t] = "done" /\ gcmOp[t].kind = "get")
                  => gcmRet[t].val = gcmRet[t].stored

----------------------------------------------------------------------------

Init ==
    /\ CacheInit /\ DbIdle /\ PipeIdle /\ RouteIdle /\ McpIdle
    /\ McpLoadIdle /\ AgentIdle /\ UrlIdle /\ DbConcIdle /\ ToolIdle
    /\ McClientIdle /\ ValidateIdle /\ ConvIdle /\ GcmIdle

Next == CacheNext

Spec == Init /\ [][Next]_vars

InitDb ==
    /\ CacheIdle /\ DbInit /\ PipeIdle /\ RouteIdle /\ McpIdle
    /\ McpLoadIdle /\ AgentIdle /\ UrlIdle /\ DbConcIdle /\ ToolIdle
    /\ McClientIdle /\ ValidateIdle /\ ConvIdle /\ GcmIdle

SpecDb == InitDb /\ [][DbNext]_vars

InitPipe ==
    /\ CacheIdle /\ DbIdle /\ PipeInit /\ RouteIdle /\ McpIdle
    /\ McpLoadIdle /\ AgentIdle /\ UrlIdle /\ DbConcIdle /\ ToolIdle
    /\ McClientIdle /\ ValidateIdle /\ ConvIdle /\ GcmIdle

SpecPipe == InitPipe /\ [][PipeNext]_vars

\* A compiled graph runs the node its last edge led to until it reaches END.
SpecPipeRun ==
    /\ InitPipe
    /\ [][PipeNext]_vars
    /\ WF_vars(PipeNext)

InitRoute ==
    /\ CacheIdle /\ DbIdle /\ PipeIdle /\ RouteInit /\ McpIdle
    /\ McpLoadIdle /\ AgentIdle /\ UrlIdle /\ DbConcIdle /\ ToolIdle
    /\ McClientIdle /\ ValidateIdle /\ ConvIdle /\ GcmIdle

SpecRoute == InitRoute /\ [][RouteNext]_vars

InitMcp ==
    /\ CacheIdle /\ DbIdle /\ PipeIdle /\ RouteIdle /\ McpInit
    /\ McpLoadIdle /\ AgentIdle /\ UrlIdle /\ DbConcIdle /\ ToolIdle
    /\ McClientIdle /\ ValidateIdle /\ ConvIdle /\ GcmIdle

SpecMcp == InitMcp /\ [][McpNext]_vars

InitMcpLoad ==
    /\ CacheIdle /\ DbIdle /\ PipeIdle /\ RouteIdle /\ McpInit
    /\ McpLoadIdle /\ AgentIdle /\ UrlIdle /\ DbConcIdle /\ ToolIdle
    /\ McClientIdle /\ ValidateIdle /\ ConvIdle /\ GcmIdle

\* asyncio resumes a coroutine whose awaited request has completed
SpecMcpLoad ==
    /\ InitMcpLoad
    /\ [][McpLoadNext]_vars
    /\ WF_vars(FetchReturns)
    /\ WF_vars(FetchFails)

InitAgents ==
    /\ CacheIdle /\ DbIdle /\ PipeIdle /\ RouteIdle /\ McpIdle
    /\ McpLoadIdle /\ AgentInit /\ UrlIdle /\ DbConcIdle /\ ToolIdle
    /\ McClientIdle /\ ValidateIdle /\ ConvIdle /\ GcmIdle

SpecAgents == InitAgents /\ [][AgentNext]_vars

InitUrl ==
    /\ CacheIdle /\ DbIdle /\ PipeIdle /\ RouteIdle /\ McpIdle
    /\ McpLoadIdle /\ AgentIdle /\ UrlInit /\ DbConcIdle /\ ToolIdle
    /\ McClientIdle /\ ValidateIdle /\ ConvIdle /\ GcmIdle

SpecUrl == InitUrl /\ [][UrlNext]_vars
InitDbConc ==
    /\ CacheIdle /\ PipeIdle /\ RouteIdle /\ McpIdle /\ McpLoadIdle
    /\ AgentIdle /\ UrlIdle /\ DbConcInit /\ ToolIdle /\ McClientIdle
    /\ ValidateIdle /\ ConvIdle /\ GcmIdle

SpecDbConc == InitDbConc /\ [][DbConcNext]_vars
InitTools ==
    /\ CacheIdle /\ DbIdle /\ PipeIdle /\ RouteIdle /\ McpIdle
    /\ McpLoadIdle /\ AgentIdle /\ UrlIdle /\ DbConcIdle /\ ToolInit
    /\ McClientIdle /\ ValidateIdle /\ ConvIdle /\ GcmIdle

SpecTools == InitTools /\ [][ToolNext]_vars
InitMcClient ==
    /\ CacheIdle /\ DbIdle /\ PipeIdle /\ RouteIdle /\ McpIdle
    /\ McpLoadIdle /\ AgentIdle /\ UrlIdle /\ DbConcIdle /\ ToolIdle
    /\ McClientInit /\ ValidateIdle /\ ConvIdle /\ GcmIdle

SpecMcClient == InitMcClient /\ [][McClientNext]_vars
InitValidate ==
    /\ CacheIdle /\ DbIdle /\ PipeIdle /\ RouteIdle /\ McpIdle
    /\ McpLoadIdle /\ AgentIdle /\ UrlIdle /\ DbConcIdle /\ ToolIdle
    /\ McClientIdle /\ ValidateInit /\ ConvIdle /\ GcmIdle

SpecValidate == InitValidate /\ [][ValidateNext]_vars
InitConv ==
    /\ CacheIdle /\ DbIdle /\ PipeIdle /\ RouteIdle /\ McpIdle
    /\ McpLoadIdle /\ AgentIdle /\ UrlIdle /\ DbConcIdle /\ ToolIdle
    /\ McClientIdle /\ ValidateIdle /\ ConvInit /\ GcmIdle

SpecConv == InitConv /\ [][ConvNext]_vars

InitGcm ==
    /\ CacheIdle /\ DbIdle /\ PipeIdle /\ RouteIdle /\ McpIdle
    /\ McpLoadIdle /\ AgentIdle /\ UrlIdle /\ DbConcIdle /\ ToolIdle
    /\ McClientIdle /\ ValidateIdle /\ ConvIdle /\ GcmInit

SpecGcm == InitGcm /\ [][GcmNext]_vars

====
